---- MODULE Spec2Model ----
(***************************************************************************)
(* A model of the daifugo rules engine: the card model (card.rs), the      *)
(* combination classifier and comparison (comb.rs), the suit lock tracker  *)
(* (suit_binder.rs), the turn/finish tracker (indexer.rs) and the field    *)
(* state machine (field.rs) as it is driven by the game loop (main.rs).    *)
(***************************************************************************)
EXTENDS Integers, Sequences, FiniteSets, TLC

(***************************************************************************)
(* card.rs                                                                 *)
(***************************************************************************)

\* enum Suit, in declaration order (the derived Ord follows that order)
Suit == {"Club", "Diamond", "Heart", "Spade"}

\* position of a suit in the derived Ord of enum Suit
SuitOrd(s) ==
    CASE s = "Club" -> 0
      [] s = "Diamond" -> 1
      [] s = "Heart" -> 2
      [] s = "Spade" -> 3

\* enum Rank
Rank == {"Three", "Four", "Five", "Six", "Seven", "Eight", "Nine", "Ten",
         "Jack", "Queen", "King", "Ace", "Two"}

\* impl From<&Rank> for i32
RankToI32(r) ==
    CASE r = "Three" -> 0
      [] r = "Four" -> 1
      [] r = "Five" -> 2
      [] r = "Six" -> 3
      [] r = "Seven" -> 4
      [] r = "Eight" -> 5
      [] r = "Nine" -> 6
      [] r = "Ten" -> 7
      [] r = "Jack" -> 8
      [] r = "Queen" -> 9
      [] r = "King" -> 10
      [] r = "Ace" -> 11
      [] r = "Two" -> 12

\* position of a rank in the derived Ord of enum Rank (declaration order)
RankOrd(r) ==
    CASE r = "Three" -> 0
      [] r = "Four" -> 1
      [] r = "Five" -> 2
      [] r = "Six" -> 3
      [] r = "Seven" -> 4
      [] r = "Eight" -> 5
      [] r = "Nine" -> 6
      [] r = "Ten" -> 7
      [] r = "Jack" -> 8
      [] r = "Queen" -> 9
      [] r = "King" -> 10
      [] r = "Ace" -> 11
      [] r = "Two" -> 12

\* enum Card: Card::Normal(suit, rank)
Normal(s, r) == [kind |-> "Normal", suit |-> s, rank |-> r]

\* enum Card: Card::Joker (it has no suit and no rank)
Joker == [kind |-> "Joker", suit |-> "NoSuit", rank |-> "NoRank"]

\* Ordering of two integers
CmpInt(a, b) == IF a < b THEN "Less" ELSE IF a > b THEN "Greater" ELSE "Equal"

\* Ordering::then
Then(o1, o2) == IF o1 = "Equal" THEN o2 ELSE o1

\* the derived Ord of enum Card: variants in declaration order (Normal < Joker),
\* two Normal cards by suit first and rank second
CardCmp(c1, c2) ==
    IF c1.kind = "Normal" /\ c2.kind = "Normal"
    THEN Then(CmpInt(SuitOrd(c1.suit), SuitOrd(c2.suit)),
              CmpInt(RankOrd(c1.rank), RankOrd(c2.rank)))
    ELSE IF c1.kind = "Normal" THEN "Less"
    ELSE IF c2.kind = "Normal" THEN "Greater"
    ELSE "Equal"

cmp_order(c1, c2) ==
    IF c1.kind = "Normal" /\ c2.kind = "Normal"
    THEN Then(CmpInt(RankOrd(c1.rank), RankOrd(c2.rank)),
              CmpInt(SuitOrd(c1.suit), SuitOrd(c2.suit)))
    ELSE CardCmp(c1, c2)

cmp_order_reversely(c1, c2) ==
    IF c1.kind = "Normal" /\ c2.kind = "Normal"
    THEN Then(CmpInt(RankOrd(c2.rank), RankOrd(c1.rank)),
              CmpInt(SuitOrd(c1.suit), SuitOrd(c2.suit)))
    ELSE CardCmp(c1, c2)

cmp_rank(c1, c2) ==
    IF c1.kind = "Normal" /\ c2.kind = "Normal"
    THEN CmpInt(RankOrd(c1.rank), RankOrd(c2.rank))
    ELSE CardCmp(c1, c2)

\* cmp_rank_reversely with the operands swapped in the Joker arm as well
cmp_rank_reversely_mut(c1, c2) ==
    IF c1.kind = "Normal" /\ c2.kind = "Normal"
    THEN CmpInt(RankOrd(c2.rank), RankOrd(c1.rank))
    ELSE CardCmp(c2, c1)

cmp_rank_reversely(c1, c2) ==
    IF c1.kind = "Normal" /\ c2.kind = "Normal"
    THEN CmpInt(RankOrd(c2.rank), RankOrd(c1.rank))
    ELSE CardCmp(c1, c2)

\* the comparators are passed by name
Compare(comparator, c1, c2) ==
    CASE comparator = "cmp_order" -> cmp_order(c1, c2)
      [] comparator = "cmp_order_reversely" -> cmp_order_reversely(c1, c2)
      [] comparator = "cmp_rank" -> cmp_rank(c1, c2)
      [] comparator = "cmp_rank_reversely" -> cmp_rank_reversely(c1, c2)

(***************************************************************************)
(* comb.rs                                                                 *)
(***************************************************************************)

MIN_MULTI == 2
MIN_SEQ == 3

\* enum Comb; a Single holds its card as a one-element sequence
Single(card) == [shape |-> "Single", cards |-> <<card>>]
Multi(cards) == [shape |-> "Multi", cards |-> cards]
Seq_(cards) == [shape |-> "Seq", cards |-> cards]

\* Option<Comb>::None
NoComb == [shape |-> "None", cards |-> <<>>]

\* mutant: Groups and Runs of different lengths are compared over the
\* positions they share
is_greater_mut_len(self, comb, comparator) ==
    IF self.shape = "Single" /\ comb.shape = "Single"
    THEN Compare(comparator, self.cards[1], comb.cards[1]) = "Greater"
    ELSE IF (self.shape = "Multi" /\ comb.shape = "Multi")
            \/ (self.shape = "Seq" /\ comb.shape = "Seq")
    THEN \A i \in 1..Len(self.cards) :
            IF i > Len(comb.cards) THEN TRUE
            ELSE IF self.cards[i].kind = "Normal" /\ comb.cards[i].kind = "Normal"
                 THEN Compare(comparator, self.cards[i], comb.cards[i]) = "Greater"
                 ELSE TRUE
    ELSE FALSE

\* mutant: a Joker is compared like any other card
is_greater_mut_joker(self, comb, comparator) ==
    IF self.shape = "Single" /\ comb.shape = "Single"
    THEN Compare(comparator, self.cards[1], comb.cards[1]) = "Greater"
    ELSE IF (self.shape = "Multi" /\ comb.shape = "Multi")
            \/ (self.shape = "Seq" /\ comb.shape = "Seq")
    THEN IF Len(self.cards) # Len(comb.cards)
         THEN FALSE
         ELSE \A i \in 1..Len(self.cards) :
                Compare(comparator, self.cards[i], comb.cards[i]) = "Greater"
    ELSE FALSE

\* Comb::is_greater
is_greater(self, comb, comparator) ==
    IF self.shape = "Single" /\ comb.shape = "Single"
    THEN Compare(comparator, self.cards[1], comb.cards[1]) = "Greater"
    ELSE IF (self.shape = "Multi" /\ comb.shape = "Multi")
            \/ (self.shape = "Seq" /\ comb.shape = "Seq")
    THEN IF Len(self.cards) # Len(comb.cards)
         THEN FALSE
         ELSE \A i \in 1..Len(self.cards) :
                IF self.cards[i].kind = "Normal" /\ comb.cards[i].kind = "Normal"
                THEN Compare(comparator, self.cards[i], comb.cards[i]) = "Greater"
                ELSE TRUE
    ELSE FALSE

\* the non-joker cards of a sequence, in order (the filter_map of the helpers)
RECURSIVE NonJokers(_)
NonJokers(cards) ==
    IF cards = <<>> THEN <<>>
    ELSE IF Head(cards).kind = "Normal"
         THEN <<Head(cards)>> \o NonJokers(Tail(cards))
         ELSE NonJokers(Tail(cards))

\* is_same_ranks comparing only the first and the last non-joker card
is_same_ranks_mut(cards) ==
    LET n == NonJokers(cards)
    IN Len(n) >= 2 => n[1].rank = n[Len(n)].rank

\* is_same_ranks: every window of two successive non-joker cards has equal ranks
is_same_ranks(cards) ==
    LET n == NonJokers(cards)
    IN \A i \in 1..(Len(n) - 1) : n[i].rank = n[i + 1].rank

\* is_same_suits
is_same_suits(cards) ==
    LET n == NonJokers(cards)
    IN \A i \in 1..(Len(n) - 1) : n[i].suit = n[i + 1].suit

\* position of the first Joker (1-based), 0 when there is none
JokerIdx(cards) ==
    IF \E i \in 1..Len(cards) : cards[i].kind = "Joker"
    THEN CHOOSE i \in 1..Len(cards) :
            /\ cards[i].kind = "Joker"
            /\ \A j \in 1..(i - 1) : cards[j].kind = "Normal"
    ELSE 0

\* the set of differences of successive numbers (tuple_windows into a HashSet)
Diffs(nums) == {nums[i + 1] - nums[i] : i \in 1..(Len(nums) - 1)}

\* the step test without the check that there is a single difference
UnitStep_mut(diffs) == diffs # {} /\ diffs \subseteq {1, -1}

\* (diffs.len() == 1) && (diffs[0].abs() == 1)
UnitStep(diffs) == diffs = {1} \/ diffs = {-1}

\* the positions whose number is_seq unwraps to replace the Joker at joker_idx
SeqNeighbours(cards, joker_idx) ==
    IF joker_idx = 1 THEN {2, 3}
    ELSE IF joker_idx = Len(cards) THEN {joker_idx - 2, joker_idx - 1}
    ELSE {joker_idx - 1, joker_idx + 1}

\* is_seq panics when it unwraps the number of a second Joker
is_seq_panics(cards) ==
    /\ Len(cards) >= MIN_SEQ
    /\ JokerIdx(cards) # 0
    /\ \E i \in SeqNeighbours(cards, JokerIdx(cards)) : cards[i].kind = "Joker"

\* the replacement taking the run to be ascending at the first position
SeqJokerNum_mut(cards, joker_idx) ==
    LET num(i) == RankToI32(cards[i].rank)
    IN IF joker_idx = 1 THEN num(2) - 1
       ELSE IF joker_idx = Len(cards) THEN 2 * num(joker_idx - 1) - num(joker_idx - 2)
       ELSE (num(joker_idx - 1) + num(joker_idx + 1)) \div 2

\* the number is_seq puts in place of the Joker at joker_idx
SeqJokerNum(cards, joker_idx) ==
    LET num(i) == RankToI32(cards[i].rank)
    IN IF joker_idx = 1 THEN 2 * num(2) - num(3)
       ELSE IF joker_idx = Len(cards) THEN 2 * num(joker_idx - 1) - num(joker_idx - 2)
       ELSE (num(joker_idx - 1) + num(joker_idx + 1)) \div 2

\* nums after the replacement, flattened: the remaining Jokers are dropped
RECURSIVE SeqNums(_, _, _)
SeqNums(cards, joker_idx, i) ==
    IF i > Len(cards) THEN <<>>
    ELSE IF i = joker_idx THEN <<SeqJokerNum(cards, joker_idx)>> \o SeqNums(cards, joker_idx, i + 1)
    ELSE IF cards[i].kind = "Joker" THEN SeqNums(cards, joker_idx, i + 1)
    ELSE <<RankToI32(cards[i].rank)>> \o SeqNums(cards, joker_idx, i + 1)

\* is_seq, where it does not panic
is_seq(cards) ==
    IF Len(cards) < MIN_SEQ THEN FALSE
    ELSE UnitStep(Diffs(SeqNums(cards, JokerIdx(cards), 1)))

\* TryFrom<Vec<Card>> for Comb: Ok(comb), Err(()) or a panic inside is_seq
try_from(cards) ==
    IF Len(cards) < MIN_MULTI THEN [tag |-> "Err", comb |-> NoComb]
    ELSE IF is_same_ranks(cards) THEN [tag |-> "Ok", comb |-> Multi(cards)]
    ELSE IF Len(cards) >= MIN_SEQ /\ is_same_suits(cards)
         THEN IF is_seq_panics(cards) THEN [tag |-> "Panic", comb |-> NoComb]
              ELSE IF is_seq(cards) THEN [tag |-> "Ok", comb |-> Seq_(cards)]
              ELSE [tag |-> "Err", comb |-> NoComb]
    ELSE [tag |-> "Err", comb |-> NoComb]

(***************************************************************************)
(* suit_binder.rs                                                          *)
(***************************************************************************)

\* Option<Vec<Suit>>
NoSuits == [some |-> FALSE, v |-> <<>>]
SomeSuits(v) == [some |-> TRUE, v |-> v]

\* SuitBinder::new
SuitBinder_new == [suits |-> NoSuits, prev_suits |-> NoSuits]

\* SuitBinder::is_activate
is_activate(self) == self.suits.some

\* get_suits: the suits of the non-joker cards, in order
get_suits(cards) ==
    LET n == NonJokers(cards)
    IN [i \in 1..Len(n) |-> n[i].suit]

\* cards.contains(&Card::Joker)
ContainsJoker(cards) == \E i \in 1..Len(cards) : cards[i].kind = "Joker"

\* mutant: a Group or Run with a Joker is observed like one without
push_mut_joker(self, comb) ==
    IF comb.shape = "Single" /\ comb.cards[1].kind = "Normal"
    THEN IF self.prev_suits.some /\ comb.cards[1].suit = self.prev_suits.v[1]
         THEN [suits |-> self.prev_suits, prev_suits |-> NoSuits]
         ELSE [self EXCEPT !.prev_suits = SomeSuits(<<comb.cards[1].suit>>)]
    ELSE IF comb.shape \in {"Multi", "Seq"}
    THEN IF self.prev_suits.some /\ self.prev_suits.v = get_suits(comb.cards)
         THEN [suits |-> self.prev_suits, prev_suits |-> NoSuits]
         ELSE [self EXCEPT !.prev_suits = SomeSuits(get_suits(comb.cards))]
    ELSE [self EXCEPT !.prev_suits = NoSuits]

\* push copying the pending pattern into the lock without taking it
push_mut_keep(self, comb) ==
    IF comb.shape = "Single" /\ comb.cards[1].kind = "Normal"
    THEN IF self.prev_suits.some /\ comb.cards[1].suit = self.prev_suits.v[1]
         THEN [suits |-> self.prev_suits, prev_suits |-> self.prev_suits]
         ELSE [self EXCEPT !.prev_suits = SomeSuits(<<comb.cards[1].suit>>)]
    ELSE IF comb.shape \in {"Multi", "Seq"} /\ ~ContainsJoker(comb.cards)
    THEN IF self.prev_suits.some /\ self.prev_suits.v = get_suits(comb.cards)
         THEN [suits |-> self.prev_suits, prev_suits |-> self.prev_suits]
         ELSE [self EXCEPT !.prev_suits = SomeSuits(get_suits(comb.cards))]
    ELSE [self EXCEPT !.prev_suits = NoSuits]

\* mutant: a Group or Run is matched on its first suit only
push_mut_first(self, comb) ==
    IF comb.shape = "Single" /\ comb.cards[1].kind = "Normal"
    THEN IF self.prev_suits.some /\ comb.cards[1].suit = self.prev_suits.v[1]
         THEN [suits |-> self.prev_suits, prev_suits |-> NoSuits]
         ELSE [self EXCEPT !.prev_suits = SomeSuits(<<comb.cards[1].suit>>)]
    ELSE IF comb.shape \in {"Multi", "Seq"} /\ ~ContainsJoker(comb.cards)
    THEN IF self.prev_suits.some /\ self.prev_suits.v[1] = get_suits(comb.cards)[1]
         THEN [suits |-> self.prev_suits, prev_suits |-> NoSuits]
         ELSE [self EXCEPT !.prev_suits = SomeSuits(get_suits(comb.cards))]
    ELSE [self EXCEPT !.prev_suits = NoSuits]

\* SuitBinder::push, the tracker after the call (the call returns is_activate)
push(self, comb) ==
    IF comb.shape = "Single" /\ comb.cards[1].kind = "Normal"
    THEN IF self.prev_suits.some /\ comb.cards[1].suit = self.prev_suits.v[1]
         THEN [suits |-> self.prev_suits, prev_suits |-> NoSuits]
         ELSE [self EXCEPT !.prev_suits = SomeSuits(<<comb.cards[1].suit>>)]
    ELSE IF comb.shape \in {"Multi", "Seq"} /\ ~ContainsJoker(comb.cards)
    THEN IF self.prev_suits.some /\ self.prev_suits.v = get_suits(comb.cards)
         THEN [suits |-> self.prev_suits, prev_suits |-> NoSuits]
         ELSE [self EXCEPT !.prev_suits = SomeSuits(get_suits(comb.cards))]
    ELSE [self EXCEPT !.prev_suits = NoSuits]

\* mutant: only the pending pattern is dropped
clear_mut(self) == [self EXCEPT !.prev_suits = NoSuits]

\* SuitBinder::clear
clear(self) == [suits |-> NoSuits, prev_suits |-> NoSuits]

\* mutant: a Single is accepted on the first suit of a lock of any length
binder_is_valid_mut(self, comb) ==
    IF self.suits.some
    THEN LET suits == self.suits.v
             cards == comb.cards
         IN CASE comb.shape = "Single" ->
                    cards[1].kind = "Normal" => cards[1].suit = suits[1]
              [] comb.shape = "Multi" ->
                    /\ Len(cards) = Len(suits)
                    /\ \A i \in 1..Len(cards) :
                          cards[i].kind = "Normal" => cards[i].suit = suits[i]
              [] comb.shape = "Seq" ->
                    /\ Len(cards) = Len(suits)
                    /\ \A i \in 1..Len(cards) :
                          cards[i].kind = "Normal" => cards[i].suit = suits[1]
    ELSE TRUE

\* SuitBinder::is_valid
binder_is_valid(self, comb) ==
    IF self.suits.some
    THEN LET suits == self.suits.v
             cards == comb.cards
         IN CASE comb.shape = "Single" ->
                    /\ Len(suits) = 1
                    /\ (cards[1].kind = "Normal" => cards[1].suit = suits[1])
              [] comb.shape = "Multi" ->
                    /\ Len(cards) = Len(suits)
                    /\ \A i \in 1..Len(cards) :
                          cards[i].kind = "Normal" => cards[i].suit = suits[i]
              [] comb.shape = "Seq" ->
                    /\ Len(cards) = Len(suits)
                    /\ \A i \in 1..Len(cards) :
                          cards[i].kind = "Normal" => cards[i].suit = suits[1]
    ELSE TRUE

(***************************************************************************)
(* indexer.rs                                                              *)
(***************************************************************************)

\* Option<usize>::None in a slot of player_rank
NoPlayer == -1

\* Indexer::new
Indexer_new(players_count, start) ==
    [idx |-> start,
     active_players |-> [i \in 1..players_count |-> i - 1],
     player_rank |-> [i \in 1..players_count |-> NoPlayer]]

\* Indexer::get_idx (idx is 0-based, sequences are 1-based)
get_idx(self) == self.active_players[self.idx + 1]

\* Indexer::count_active_players
count_active_players(self) == Len(self.active_players)

\* Indexer::get_player_rank: the filled slots, in slot order
RECURSIVE Filled(_)
Filled(rank) ==
    IF rank = <<>> THEN <<>>
    ELSE IF Head(rank) = NoPlayer THEN Filled(Tail(rank))
         ELSE <<Head(rank)>> \o Filled(Tail(rank))

get_player_rank(self) == Filled(self.player_rank)

\* Indexer::next
next(self) == [self EXCEPT !.idx = (self.idx + 1) % Len(self.active_players)]

\* Vec::remove at a 0-based index
Remove(s, i) == SubSeq(s, 1, i) \o SubSeq(s, i + 2, Len(s))

\* the slots of player_rank that are still None
Unfilled(rank) == {i \in 1..Len(rank) : rank[i] = NoPlayer}

\* the smallest and the largest member of a non-empty set of slots
Min(S) == CHOOSE i \in S : \A j \in S : i <= j
Max(S) == CHOOSE i \in S : \A j \in S : i >= j

\* set_player_rank writing the last unfilled slot
set_player_rank_mut(rank, player) ==
    IF Unfilled(rank) = {} THEN rank
    ELSE [rank EXCEPT ![Max(Unfilled(rank))] = player]

\* Indexer::set_player_rank: write the first unfilled slot, if there is one
set_player_rank(rank, player) ==
    IF Unfilled(rank) = {} THEN rank
    ELSE [rank EXCEPT ![Min(Unfilled(rank))] = player]

\* mutant: the back write always takes the last slot
SetPlayerRankBack_mut(rank, player) == [rank EXCEPT ![Len(rank)] = player]

\* the write of set_rank_back: the last unfilled slot, if there is one
SetPlayerRankBack(rank, player) ==
    IF Unfilled(rank) = {} THEN rank
    ELSE [rank EXCEPT ![Max(Unfilled(rank))] = player]

\* mutant: the cursor is left where it was
AdjustIdx_mut(i, active) == i

\* the index adjustment of set_rank_front and set_rank_back; with an empty
\* list len() - 1 wraps to usize::MAX (release build), so i is kept
AdjustIdx(i, active) ==
    IF Len(active) = 0 THEN i
    ELSE IF i > Len(active) - 1 THEN 0 ELSE i

\* mutant: the sole remaining player stays active
AutoFinish_mut(self) == self

\* the tail of set_rank_front and set_rank_back: the sole remaining player
\* is ranked in the first unfilled slot and removed
AutoFinish(self) ==
    IF Len(self.active_players) = 1
    THEN [self EXCEPT !.player_rank = set_player_rank(self.player_rank, self.active_players[1]),
                      !.active_players = <<>>]
    ELSE self

\* set_rank_front ranking the current player without removing it
set_rank_front_mut_keep(self) ==
    LET player == self.active_players[self.idx + 1]
    IN [self EXCEPT !.player_rank = set_player_rank(self.player_rank, player)]

\* set_rank_front wrapping the cursor one position too early
set_rank_front_mut(self) ==
    LET player == self.active_players[self.idx + 1]
        active == Remove(self.active_players, self.idx)
    IN AutoFinish([idx |-> IF Len(active) > 0 /\ self.idx >= Len(active) - 1
                           THEN 0 ELSE self.idx,
                   active_players |-> active,
                   player_rank |-> set_player_rank(self.player_rank, player)])

\* Indexer::set_rank_front
set_rank_front(self) ==
    LET player == self.active_players[self.idx + 1]
        active == Remove(self.active_players, self.idx)
    IN AutoFinish([idx |-> AdjustIdx(self.idx, active),
                   active_players |-> active,
                   player_rank |-> set_player_rank(self.player_rank, player)])

\* mutant: a back finish does not finish the sole remaining player
set_rank_back_mut(self) ==
    LET player == self.active_players[self.idx + 1]
        active == Remove(self.active_players, self.idx)
    IN [idx |-> AdjustIdx(self.idx, active),
        active_players |-> active,
        player_rank |-> SetPlayerRankBack(self.player_rank, player)]

\* Indexer::set_rank_back
set_rank_back(self) ==
    LET player == self.active_players[self.idx + 1]
        active == Remove(self.active_players, self.idx)
    IN AutoFinish([idx |-> AdjustIdx(self.idx, active),
                   active_players |-> active,
                   player_rank |-> SetPlayerRankBack(self.player_rank, player)])

(***************************************************************************)
(* field.rs                                                                *)
(***************************************************************************)

\* bitflags Flags, as a set of flag names
Flags == {"BIND", "EIGHT", "REV", "OUT", "LOSE"}

\* Field::new
Field_new(players_count, start_idx) ==
    [prev_comb |-> NoComb,
     indexer |-> Indexer_new(players_count, start_idx),
     binder |-> SuitBinder_new,
     pass_counter |-> 0,
     is_rev |-> FALSE]

\* get_rank: the rank of the first non-joker card, "NoRank" for None
get_rank(cards) ==
    IF NonJokers(cards) = <<>> THEN "NoRank" ELSE NonJokers(cards)[1].rank

\* mutant: a Run is treated like a Group
contains_eight_mut(comb) ==
    CASE comb.shape = "Single" ->
            comb.cards[1].kind = "Normal" /\ comb.cards[1].rank = "Eight"
      [] OTHER -> get_rank(comb.cards) = "Eight"

\* contains_eight
contains_eight(comb) ==
    CASE comb.shape = "Single" ->
            comb.cards[1].kind = "Normal" /\ comb.cards[1].rank = "Eight"
      [] comb.shape = "Multi" -> get_rank(comb.cards) = "Eight"
      [] OTHER -> FALSE

\* mutant: the same ranks in both power states
especial_ranks_mut(rev) == {"Eight", "Two"}

\* the especial_ranks of contains_especial_card
especial_ranks(rev) == IF rev THEN {"Eight", "Three"} ELSE {"Eight", "Two"}

\* mutant: a Group is never a forbidden finish
contains_especial_card_mut(comb, rev) ==
    CASE comb.shape = "Single" ->
            IF comb.cards[1].kind = "Normal"
            THEN comb.cards[1].rank \in especial_ranks(rev)
            ELSE TRUE
      [] OTHER -> FALSE

\* contains_especial_card
contains_especial_card(comb, rev) ==
    CASE comb.shape = "Single" ->
            IF comb.cards[1].kind = "Normal"
            THEN comb.cards[1].rank \in especial_ranks(rev)
            ELSE TRUE
      [] comb.shape = "Multi" ->
            IF get_rank(comb.cards) = "NoRank" THEN FALSE
            ELSE get_rank(comb.cards) \in especial_ranks(rev)
      [] OTHER -> FALSE

\* mutant: any combination of 4 or more cards reverses the power
is_rev_comb_mut(comb) == Len(comb.cards) >= 4

\* is_rev_comb
is_rev_comb(comb) ==
    CASE comb.shape = "Multi" -> Len(comb.cards) >= 4
      [] OTHER -> FALSE

\* mutant: the reversal state is ignored
RankComparator_mut(rev) == "cmp_rank"

\* the comparator Field::is_valid selects
RankComparator(rev) == IF rev THEN "cmp_rank_reversely" ELSE "cmp_rank"

\* Field::get_order_comparator
get_order_comparator(rev) == IF rev THEN "cmp_order_reversely" ELSE "cmp_order"

\* Validator::is_valid for Field
field_is_valid(self, comb) ==
    IF self.prev_comb # NoComb
    THEN /\ binder_is_valid(self.binder, comb)
         /\ is_greater(comb, self.prev_comb, RankComparator(self.is_rev))
    ELSE TRUE

\* mutant: the countdown includes the player who played
PlayPassCounter_mut(self) == count_active_players(self.indexer)

\* the countdown set one too low
PlayPassCounter_mut_low(self) == count_active_players(self.indexer) - 2

\* Field::put with Some(comb): the countdown
PlayPassCounter(self) == count_active_players(self.indexer) - 1

\* mutant: the cursor advances after an eight-play too
PlayIndexer_mut(self, comb, hands) ==
    IF hands > 0
    THEN next(self.indexer)
    ELSE IF contains_especial_card(comb, self.is_rev)
         THEN set_rank_back(self.indexer)
         ELSE set_rank_front(self.indexer)

\* Field::put with Some(comb): the turn/finish tracker
PlayIndexer(self, comb, hands) ==
    IF hands > 0
    THEN IF contains_eight(comb) THEN self.indexer ELSE next(self.indexer)
    ELSE IF contains_especial_card(comb, self.is_rev)
         THEN set_rank_back(self.indexer)
         ELSE set_rank_front(self.indexer)

\* Field::put with Some(comb): the binder after the eight-play clear
PlayClearedBinder(self, comb, hands) ==
    IF hands > 0 /\ contains_eight(comb) THEN clear(self.binder) ELSE self.binder

\* mutant: the combination is pushed to an active binder too
PlayPushes_mut(self, comb, hands) == ~contains_eight(comb)

\* Field::put with Some(comb): whether the combination is pushed to the binder
PlayPushes(self, comb, hands) ==
    ~contains_eight(comb) /\ ~is_activate(PlayClearedBinder(self, comb, hands))

\* Field::put with Some(comb): the suit lock tracker
PlayBinder(self, comb, hands) ==
    IF PlayPushes(self, comb, hands)
    THEN push(PlayClearedBinder(self, comb, hands), comb)
    ELSE PlayClearedBinder(self, comb, hands)

\* the reversal flag left as it was by a Group of 4 or more cards
PlayIsRev_mut(self, comb) == self.is_rev

\* Field::put with Some(comb): the reversal flag
PlayIsRev(self, comb) == IF is_rev_comb(comb) THEN ~self.is_rev ELSE self.is_rev

\* Field::put with Some(comb): the previous combination
PlayPrevComb(comb) == IF contains_eight(comb) THEN NoComb ELSE comb

\* the flags with EIGHT set by a finishing eight-play as well
PlayFlags_mut_eight(self, comb, hands) ==
    (IF contains_eight(comb) THEN {"EIGHT"} ELSE {})
    \cup (IF hands = 0 /\ contains_especial_card(comb, self.is_rev) THEN {"LOSE"} ELSE {})
    \cup (IF hands = 0 /\ ~contains_especial_card(comb, self.is_rev) THEN {"OUT"} ELSE {})
    \cup (IF PlayPushes(self, comb, hands) /\ is_activate(PlayBinder(self, comb, hands))
          THEN {"BIND"} ELSE {})
    \cup (IF is_rev_comb(comb) THEN {"REV"} ELSE {})

\* the flags with the forbidden-finish test made after the reversal toggle
PlayFlags_mut(self, comb, hands) ==
    (IF hands > 0 /\ contains_eight(comb) THEN {"EIGHT"} ELSE {})
    \cup (IF hands = 0 /\ contains_especial_card(comb, PlayIsRev(self, comb))
          THEN {"LOSE"} ELSE {})
    \cup (IF hands = 0 /\ ~contains_especial_card(comb, PlayIsRev(self, comb))
          THEN {"OUT"} ELSE {})
    \cup (IF PlayPushes(self, comb, hands) /\ is_activate(PlayBinder(self, comb, hands))
          THEN {"BIND"} ELSE {})
    \cup (IF is_rev_comb(comb) THEN {"REV"} ELSE {})

\* Field::put with Some(comb): the returned flags
PlayFlags(self, comb, hands) ==
    (IF hands > 0 /\ contains_eight(comb) THEN {"EIGHT"} ELSE {})
    \cup (IF hands = 0 /\ contains_especial_card(comb, self.is_rev) THEN {"LOSE"} ELSE {})
    \cup (IF hands = 0 /\ ~contains_especial_card(comb, self.is_rev) THEN {"OUT"} ELSE {})
    \cup (IF PlayPushes(self, comb, hands) /\ is_activate(PlayBinder(self, comb, hands))
          THEN {"BIND"} ELSE {})
    \cup (IF is_rev_comb(comb) THEN {"REV"} ELSE {})

\* the countdown left as it was by a pass
PassPassCounter_mut(self) == self.pass_counter

\* Field::put with None: the countdown
PassPassCounter(self) == self.pass_counter - 1

\* the table cleared by every pass
PassClears_mut_always(self) == TRUE

\* the table cleared one pass early
PassClears_mut(self) == PassPassCounter(self) <= 1

\* Field::put with None: whether the table is cleared
PassClears(self) == PassPassCounter(self) = 0

\* Field::put: the field after the call and the returned flags
put(self, new_comb, hands) ==
    IF new_comb # NoComb
    THEN [field |-> [prev_comb |-> PlayPrevComb(new_comb),
                     indexer |-> PlayIndexer(self, new_comb, hands),
                     binder |-> PlayBinder(self, new_comb, hands),
                     pass_counter |-> PlayPassCounter(self),
                     is_rev |-> PlayIsRev(self, new_comb)],
          flags |-> PlayFlags(self, new_comb, hands)]
    ELSE [field |-> [prev_comb |-> IF PassClears(self) THEN NoComb ELSE self.prev_comb,
                     indexer |-> next(self.indexer),
                     binder |-> IF PassClears(self) THEN clear(self.binder) ELSE self.binder,
                     pass_counter |-> PassPassCounter(self),
                     is_rev |-> self.is_rev],
          flags |-> {}]

(***************************************************************************)
(* main.rs, pc.rs, npc.rs: the game loop and what the players hand to it   *)
(***************************************************************************)

PLAYERS_COUNT == 4

\* Card::Normal of each suit the modelled hands hold
Diamond(r) == Normal("Diamond", r)
Heart(r) == Normal("Heart", r)
Spade(r) == Normal("Spade", r)

\* the cards a player selects for one play (pc.rs reads the selection from
\* the input, npc.rs searches the hand): Singles, Groups with and without a
\* Joker, Groups of four, Runs, and selections that are no combination
Picks ==
    {{Diamond("Three")}, {Heart("Three")}, {Diamond("Four")},
     {Diamond("Eight")}, {Diamond("Two")}, {Joker},
     {Diamond("Three"), Heart("Three")}, {Diamond("Three"), Joker},
     {Diamond("Eight"), Heart("Eight")}, {Diamond("Eight"), Joker},
     {Diamond("Two"), Heart("Two")},
     {Diamond("Three"), Heart("Three"), Spade("Three")},
     {Diamond("Two"), Heart("Two"), Joker},
     {Diamond("Three"), Heart("Three"), Spade("Three"), Joker},
     {Diamond("Eight"), Heart("Eight"), Spade("Eight"), Joker},
     {Diamond("Two"), Heart("Two"), Spade("Two"), Joker},
     {Diamond("Three"), Diamond("Four"), Diamond("Five")},
     {Diamond("Four"), Diamond("Five"), Diamond("Six")},
     {Diamond("Eight"), Diamond("Nine"), Joker},
     {Diamond("Ace"), Diamond("Two"), Joker},
     {Diamond("Three"), Diamond("Four"), Diamond("Five"), Joker},
     {Diamond("Three"), Diamond("Four"), Diamond("Five"), Diamond("Six"), Joker},
     {Diamond("Three"), Diamond("Four")},
     {Diamond("Three"), Heart("Three"), Diamond("Four")}}

\* the largest number of cards played at once
MaxCombLen == 4

\* the largest remaining hand size reported to Field::put
MaxHandsCount == 1

\* sort_by(comparator) of a set of distinct cards
RECURSIVE SortBy(_, _)
SortBy(S, comparator) ==
    IF S = {} THEN <<>>
    ELSE LET m == CHOOSE c \in S :
                    \A d \in S \ {c} : Compare(comparator, c, d) = "Less"
         IN <<m>> \o SortBy(S \ {m}, comparator)

\* conver_to_comb (pc.rs): one card is a Single, more go through try_from
conver_to_comb(cards) ==
    IF Len(cards) = 1 THEN [tag |-> "Ok", comb |-> Single(cards[1])]
    ELSE try_from(cards)

\* the combinations a player can form from cards of a hand sorted by the
\* comparator: the selected indices are ascending, so the cards are in hand order
Selections(comparator) ==
    {SortBy(S, comparator) :
        S \in {T \in Picks : Cardinality(T) \in 1..MaxCombLen}}

Candidates(comparator) ==
    {conver_to_comb(cards).comb :
        cards \in {c \in Selections(comparator) : conver_to_comb(c).tag = "Ok"}}

CandidatesOrder == Candidates("cmp_order")
CandidatesOrderReversely == Candidates("cmp_order_reversely")

\* the hands are sorted by Field::get_order_comparator at every turn
HandCombs(rev) == IF rev THEN CandidatesOrderReversely ELSE CandidatesOrder

(***************************************************************************)
(* npc.rs: positions in a hand are counted from 1                          *)
(***************************************************************************)

\* Option<(Comb, Vec<usize>)>::None and Some
NoSeq == [some |-> FALSE, comb |-> NoComb, indices |-> <<>>]
SomeSeq(comb, indices) == [some |-> TRUE, comb |-> comb, indices |-> indices]

\* what play leaves behind: the Option<Comb> it returns and self.hands
Played_(comb, hands) == [comb |-> comb, hands |-> hands]

\* get_cards (npc.rs)
get_cards(cards, indices) == [k \in 1..Len(indices) |-> cards[indices[k]]]

\* MinNpc::remove_hands: the indices are removed from the last to the first
RECURSIVE remove_hands(_, _)
remove_hands(hands, indices) ==
    IF indices = <<>> THEN hands
    ELSE remove_hands(Remove(hands, indices[Len(indices)] - 1),
                      SubSeq(indices, 1, Len(indices) - 1))

\* the key of group_by in get_indices_grouped_by_rank
RankKey(card) == IF card.kind = "Normal" THEN card.rank ELSE "None"

\* group_by: the maximal blocks of adjacent positions with one key, from i on
RECURSIVE GroupsFrom(_, _)
GroupsFrom(cards, i) ==
    IF i > Len(cards) THEN <<>>
    ELSE LET e == CHOOSE j \in i..Len(cards) :
                     /\ \A k \in i..j : RankKey(cards[k]) = RankKey(cards[i])
                     /\ j = Len(cards) \/ RankKey(cards[j + 1]) # RankKey(cards[i])
         IN <<[k \in 1..(e - i + 1) |-> i + k - 1]>> \o GroupsFrom(cards, e + 1)

get_indices_grouped_by_rank(cards, len) ==
    SelectSeq(GroupsFrom(cards, 1), LAMBDA g : Len(g) >= len)

\* the positions of the cards of suit s, ascending
SuitIndices(cards, s) ==
    SelectSeq([i \in 1..Len(cards) |-> i],
              LAMBDA i : cards[i].kind = "Normal" /\ cards[i].suit = s)

\* get_indices_grouped_by_suit: one group per suit (Jokers are dropped), the
\* groups sorted by suit, those shorter than len filtered out
get_indices_grouped_by_suit(cards, len) ==
    SelectSeq(<<SuitIndices(cards, "Club"), SuitIndices(cards, "Diamond"),
                SuitIndices(cards, "Heart"), SuitIndices(cards, "Spade")>>,
              LAMBDA g : Len(g) >= len /\ Len(g) > 0)

\* find_seq: the first window of len indices whose cards try_from accepts
find_seq(cards, indices, len) ==
    LET window(i) == SubSeq(indices, i, i + len - 1)
        found == {i \in 1..(Len(indices) + 1 - len) :
                     try_from(get_cards(cards, window(i))).tag = "Ok"}
    IN IF found = {} THEN NoSeq
       ELSE SomeSeq(try_from(get_cards(cards, window(Min(found)))).comb,
                    window(Min(found)))

\* MinNpc::play, previous combination Single: the first card that is valid
PlaySingle(hands, validator) ==
    LET found == {i \in 1..Len(hands) : field_is_valid(validator, Single(hands[i]))}
    IN IF found = {} THEN Played_(NoComb, hands)
       ELSE Played_(Single(hands[Min(found)]), Remove(hands, Min(found) - 1))

\* MinNpc::play, previous combination Multi: the first rank group whose
\* first len cards are a valid combination
PlayMulti(hands, validator) ==
    LET len == Len(validator.prev_comb.cards)
        groups == get_indices_grouped_by_rank(hands, len)
        picked(g) == SubSeq(groups[g], 1, len)
        tried(g) == try_from(get_cards(hands, picked(g)))
        found == {g \in 1..Len(groups) :
                     /\ tried(g).tag = "Ok"
                     /\ field_is_valid(validator, tried(g).comb)}
    IN IF found = {} THEN Played_(NoComb, hands)
       ELSE Played_(tried(Min(found)).comb, remove_hands(hands, picked(Min(found))))

\* the Seq branch removing the first len cards of the suit group instead of
\* the cards of the run that find_seq returned
PlaySeq_mut(hands, validator) ==
    LET len == Len(validator.prev_comb.cards)
        groups == get_indices_grouped_by_suit(hands, len)
        tried(g) == find_seq(hands, groups[g], len)
        found == {g \in 1..Len(groups) :
                     /\ tried(g).some
                     /\ field_is_valid(validator, tried(g).comb)}
    IN IF found = {} THEN Played_(NoComb, hands)
       ELSE Played_(tried(Min(found)).comb,
                    remove_hands(hands, SubSeq(groups[Min(found)], 1, len)))

\* MinNpc::play, previous combination Seq: the first suit group whose first
\* run of len cards is valid
PlaySeq(hands, validator) ==
    LET len == Len(validator.prev_comb.cards)
        groups == get_indices_grouped_by_suit(hands, len)
        tried(g) == find_seq(hands, groups[g], len)
        found == {g \in 1..Len(groups) :
                     /\ tried(g).some
                     /\ field_is_valid(validator, tried(g).comb)}
    IN IF found = {} THEN Played_(NoComb, hands)
       ELSE Played_(tried(Min(found)).comb,
                    remove_hands(hands, SubSeq(tried(Min(found)).indices, 1, len)))

\* MinNpc::play on a clear table, first attempt: a whole rank group of
\* MIN_MULTI or more cards
LeadMulti(hands) ==
    LET groups == get_indices_grouped_by_rank(hands, MIN_MULTI)
        tried(g) == try_from(get_cards(hands, groups[g]))
        found == {g \in 1..Len(groups) : tried(g).tag = "Ok"}
    IN IF found = {} THEN Played_(NoComb, hands)
       ELSE Played_(tried(Min(found)).comb, remove_hands(hands, groups[Min(found)]))

\* the longest run find_seq finds in a suit group (lengths tried downwards)
LongestSeq(hands, indices) ==
    LET lens == {len \in MIN_SEQ..Len(indices) : find_seq(hands, indices, len).some}
    IN IF lens = {} THEN NoSeq ELSE find_seq(hands, indices, Max(lens))

\* MinNpc::play on a clear table, second attempt: the longest run of the
\* first suit group that has one
LeadSeq(hands) ==
    LET groups == get_indices_grouped_by_suit(hands, MIN_SEQ)
        tried(g) == LongestSeq(hands, groups[g])
        found == {g \in 1..Len(groups) : tried(g).some}
    IN IF found = {} THEN Played_(NoComb, hands)
       ELSE Played_(tried(Min(found)).comb,
                    remove_hands(hands, tried(Min(found)).indices))

\* MinNpc::play
MinNpc_play(hands, validator) ==
    IF validator.prev_comb.shape = "Single" THEN PlaySingle(hands, validator)
    ELSE IF validator.prev_comb.shape = "Multi" THEN PlayMulti(hands, validator)
    ELSE IF validator.prev_comb.shape = "Seq" THEN PlaySeq(hands, validator)
    ELSE IF LeadMulti(hands).comb # NoComb THEN LeadMulti(hands)
    ELSE IF LeadSeq(hands).comb # NoComb THEN LeadSeq(hands)
    ELSE IF hands # <<>> THEN Played_(Single(hands[1]), Remove(hands, 0))
    ELSE Played_(NoComb, hands)

VARIABLES
    prev_comb,      \* Field.prev_comb
    indexer,        \* Field.indexer
    binder,         \* Field.binder
    pass_counter,   \* Field.pass_counter
    is_rev,         \* Field.is_rev
    played_comb,    \* main: what the last player to move played (NoComb for a pass)
    hands_count,    \* main: that player's remaining hand size
    flags,          \* main: the flags Field::put returned
    last_play,      \* history: the most recent call of put with Some(comb)
    passes,         \* history: the passes since that call
    finish_calls,   \* history: calls of set_rank_front/set_rank_back this round
    finish_log,     \* history: who finished with OUT and who with LOSE, in order
    hands_left,     \* main: players[i].count_hands(), where the hands are followed
    call,           \* unit level: the last function applied and its arguments
    ret             \* unit level: what that call returned

vars == <<prev_comb, indexer, binder, pass_counter, is_rev,
          played_comb, hands_count, flags, last_play, passes, finish_calls,
          finish_log, hands_left, call, ret>>

\* the Field aggregate
Self ==
    [prev_comb |-> prev_comb, indexer |-> indexer, binder |-> binder,
     pass_counter |-> pass_counter, is_rev |-> is_rev]

\* history of a play: who played, whether it emptied the hand, how many
\* players were active when it was made, whether the table was clear before
\* it and whether the lock was active after it
NoPlay ==
    [player |-> NoPlayer, finished |-> FALSE, active |-> 0,
     clear_before |-> FALSE, locked |-> FALSE]

\* history of a round's finishes: nobody has finished
NoFinishes == [out |-> <<>>, lose |-> <<>>]

\* the hands are not followed: any remaining size may be reported
NoHands == <<>>

\* no function has been applied at unit level
NoCall == [op |-> "none"]

\* main: Field::new(PLAYERS_COUNT, start), start being 0 in the first round
\* and the last-ranked player of the previous round afterwards
Start(start_idx) ==
    /\ prev_comb = Field_new(PLAYERS_COUNT, start_idx).prev_comb
    /\ indexer = Field_new(PLAYERS_COUNT, start_idx).indexer
    /\ binder = Field_new(PLAYERS_COUNT, start_idx).binder
    /\ pass_counter = Field_new(PLAYERS_COUNT, start_idx).pass_counter
    /\ is_rev = Field_new(PLAYERS_COUNT, start_idx).is_rev
    /\ played_comb = NoComb
    /\ hands_count = 0
    /\ flags = {}
    /\ last_play = NoPlay
    /\ passes = 0
    /\ finish_calls = 0
    /\ finish_log = NoFinishes
    /\ hands_left = NoHands
    /\ call = NoCall
    /\ ret = FALSE

Init == \E start_idx \in 0..(PLAYERS_COUNT - 1) : Start(start_idx)

\* one turn of the main loop: the field after put and the loop's locals
Turn(comb, hands) ==
    \E r \in {put(Self, comb, hands)} :
       /\ prev_comb' = r.field.prev_comb
       /\ indexer' = r.field.indexer
       /\ binder' = r.field.binder
       /\ pass_counter' = r.field.pass_counter
       /\ is_rev' = r.field.is_rev
       /\ played_comb' = comb
       /\ hands_count' = hands
       /\ flags' = r.flags

\* the combinations of the sorted hands that Validator::is_valid accepts
ValidCombs == {comb \in HandCombs(is_rev) : field_is_valid(Self, comb)}

\* a player plays a combination that Validator::is_valid accepts
Play ==
    /\ count_active_players(indexer) > 0
    /\ \E comb \in ValidCombs, hands \in 0..MaxHandsCount :
          /\ Turn(comb, hands)
          /\ last_play' = [player |-> get_idx(indexer),
                           finished |-> (hands = 0),
                           active |-> count_active_players(indexer),
                           clear_before |-> (prev_comb = NoComb /\ binder = SuitBinder_new),
                           locked |-> is_activate(binder')]
          /\ passes' = 0
          /\ finish_calls' = IF hands = 0 THEN finish_calls + 1 ELSE finish_calls
          /\ finish_log' = IF hands > 0 THEN finish_log
                           ELSE IF "LOSE" \in flags'
                           THEN [finish_log EXCEPT !.lose = Append(@, get_idx(indexer))]
                           ELSE [finish_log EXCEPT !.out = Append(@, get_idx(indexer))]
    /\ UNCHANGED <<hands_left, call, ret>>

\* a player passes: both players pass only when a combination is on the table
Pass ==
    /\ count_active_players(indexer) > 0
    /\ prev_comb # NoComb
    /\ \E hands \in 1..MaxHandsCount : Turn(NoComb, hands)
    /\ passes' = passes + 1
    /\ UNCHANGED <<last_play, finish_calls, finish_log, hands_left, call, ret>>

\* the round is over and another one is started from the last-ranked player
NewRound ==
    /\ count_active_players(indexer) = 0
    /\ \E f \in {Field_new(PLAYERS_COUNT, get_player_rank(indexer)[PLAYERS_COUNT])} :
          /\ prev_comb' = f.prev_comb
          /\ indexer' = f.indexer
          /\ binder' = f.binder
          /\ pass_counter' = f.pass_counter
          /\ is_rev' = f.is_rev
    /\ played_comb' = NoComb
    /\ hands_count' = 0
    /\ flags' = {}
    /\ last_play' = NoPlay
    /\ passes' = 0
    /\ finish_calls' = 0
    /\ finish_log' = NoFinishes
    /\ UNCHANGED <<hands_left, call, ret>>

Next == Play \/ Pass \/ NewRound

Spec == Init /\ [][Next]_vars

(***************************************************************************)
(* One round with the hand sizes followed: every play takes its cards out  *)
(* of the player's hand and hands_count is the size that is left           *)
(***************************************************************************)

\* the largest hand dealt to a player
MaxDeal == 2

\* get_split_deck and Field::new: every player holds at least one card
RoundInit ==
    /\ \E start_idx \in 0..(PLAYERS_COUNT - 1) :
          /\ prev_comb = Field_new(PLAYERS_COUNT, start_idx).prev_comb
          /\ indexer = Field_new(PLAYERS_COUNT, start_idx).indexer
          /\ binder = Field_new(PLAYERS_COUNT, start_idx).binder
          /\ pass_counter = Field_new(PLAYERS_COUNT, start_idx).pass_counter
          /\ is_rev = Field_new(PLAYERS_COUNT, start_idx).is_rev
    /\ played_comb = NoComb
    /\ hands_count = 0
    /\ flags = {}
    /\ last_play = NoPlay
    /\ passes = 0
    /\ finish_calls = 0
    /\ finish_log = NoFinishes
    /\ hands_left \in [0..(PLAYERS_COUNT - 1) -> 1..MaxDeal]
    /\ call = NoCall
    /\ ret = FALSE

\* the combinations the player to move can play: valid ones that fit the hand
RoundCombs ==
    {comb \in ValidCombs : Len(comb.cards) <= hands_left[get_idx(indexer)]}

\* the player to move plays a valid combination out of the hand (the
\* histories of the plays are not kept here)
RoundPlay ==
    /\ count_active_players(indexer) > 0
    /\ \E comb \in RoundCombs :
          \E hands \in {hands_left[get_idx(indexer)] - Len(comb.cards)} :
             /\ Turn(comb, hands)
             /\ hands_left' = [hands_left EXCEPT ![get_idx(indexer)] = hands]
    /\ UNCHANGED <<last_play, passes, finish_calls, finish_log, call, ret>>

\* the player to move passes, which players do only when a combination is
\* on the table
RoundPass ==
    /\ count_active_players(indexer) > 0
    /\ prev_comb # NoComb
    /\ Turn(NoComb, hands_left[get_idx(indexer)])
    /\ UNCHANGED <<last_play, passes, finish_calls, finish_log, hands_left, call, ret>>

RoundNext == RoundPlay \/ RoundPass

\* the main loop keeps taking turns while a player is active
RoundSpec == RoundInit /\ [][RoundNext]_vars /\ WF_vars(RoundNext)

(***************************************************************************)
(* Unit level: SuitBinder and Comb driven directly, as the unit tests do    *)
(***************************************************************************)

\* every combination the modelled hands can form, in either hand order
AllCombs == CandidatesOrder \cup CandidatesOrderReversely

\* the combinations handed to the functions at unit level: those of the
\* modelled hands, and Singles, Groups and Runs of other suits and orders
TestCombs ==
    AllCombs \cup
    {Single(Spade("Three")),
     Multi(<<Heart("Three"), Spade("Three")>>),
     Multi(<<Heart("Three"), Diamond("Three")>>),
     Multi(<<Joker, Heart("Three")>>),
     Seq_(<<Heart("Three"), Heart("Four"), Heart("Five")>>),
     Seq_(<<Joker, Heart("Four"), Heart("Five")>>)}

\* the Field and the loop's locals, which the unit level leaves alone
FieldRest ==
    <<prev_comb, indexer, pass_counter, is_rev, played_comb, hands_count,
      flags, last_play, passes, finish_calls, finish_log, hands_left>>

\* SuitBinder::new()
BinderInit == Start(0)

\* binder.push(&comb), returning is_activate()
BinderPush ==
    \E comb \in TestCombs :
       /\ binder' = push(binder, comb)
       /\ call' = [op |-> "push", comb |-> comb]
       /\ ret' = is_activate(push(binder, comb))
       /\ UNCHANGED FieldRest

\* binder.clear()
BinderClear ==
    /\ binder' = clear(binder)
    /\ call' = [op |-> "clear", comb |-> NoComb]
    /\ ret' = FALSE
    /\ UNCHANGED FieldRest

\* binder.is_valid(&comb)
BinderIsValid ==
    \E comb \in TestCombs :
       /\ binder' = binder
       /\ call' = [op |-> "is_valid", comb |-> comb]
       /\ ret' = binder_is_valid(binder, comb)
       /\ UNCHANGED FieldRest

BinderNext == BinderPush \/ BinderClear \/ BinderIsValid

BinderSpec == BinderInit /\ [][BinderNext]_vars

\* the four comparators of card.rs, by name
Comparators == {"cmp_order", "cmp_order_reversely", "cmp_rank", "cmp_rank_reversely"}

\* two combinations and a comparator are chosen; nothing is applied yet
CombInit ==
    /\ prev_comb = Field_new(PLAYERS_COUNT, 0).prev_comb
    /\ indexer = Field_new(PLAYERS_COUNT, 0).indexer
    /\ binder = Field_new(PLAYERS_COUNT, 0).binder
    /\ pass_counter = Field_new(PLAYERS_COUNT, 0).pass_counter
    /\ is_rev = Field_new(PLAYERS_COUNT, 0).is_rev
    /\ played_comb = NoComb
    /\ hands_count = 0
    /\ flags = {}
    /\ last_play = NoPlay
    /\ passes = 0
    /\ finish_calls = 0
    /\ finish_log = NoFinishes
    /\ hands_left = NoHands
    /\ \E c1 \in TestCombs, c2 \in TestCombs, comparator \in Comparators :
          call = [op |-> "is_greater", self |-> c1, comb |-> c2,
                  comparator |-> comparator, done |-> FALSE]
    /\ ret = FALSE

\* self.is_greater(&comb, comparator)
CombIsGreater ==
    /\ call.op = "is_greater"
    /\ ~call.done
    /\ call' = [call EXCEPT !.done = TRUE]
    /\ ret' = is_greater(call.self, call.comb, call.comparator)
    /\ UNCHANGED binder
    /\ UNCHANGED FieldRest

CombNext == CombIsGreater

CombSpec == CombInit /\ [][CombNext]_vars

\* the longest card sequence handed to Comb::try_from
MaxTryLen == 4

\* the cards the sequences are built from: a suit with consecutive and
\* extreme ranks, a second suit and the Joker
TryCards ==
    {Diamond("Three"), Diamond("Four"), Diamond("Five"), Diamond("Six"),
     Diamond("Ace"), Diamond("Two"), Heart("Four"), Joker}

\* every Vec<Card> of up to MaxTryLen of these cards, in every order
TryInputs == UNION {[1..n -> TryCards] : n \in 0..MaxTryLen}

\* a card sequence is chosen; nothing is applied yet
TryInit ==
    /\ prev_comb = Field_new(PLAYERS_COUNT, 0).prev_comb
    /\ indexer = Field_new(PLAYERS_COUNT, 0).indexer
    /\ binder = Field_new(PLAYERS_COUNT, 0).binder
    /\ pass_counter = Field_new(PLAYERS_COUNT, 0).pass_counter
    /\ is_rev = Field_new(PLAYERS_COUNT, 0).is_rev
    /\ played_comb = NoComb
    /\ hands_count = 0
    /\ flags = {}
    /\ last_play = NoPlay
    /\ passes = 0
    /\ finish_calls = 0
    /\ finish_log = NoFinishes
    /\ hands_left = NoHands
    /\ \E cards \in TryInputs :
          call = [op |-> "try_from", cards |-> cards, done |-> FALSE]
    /\ ret = FALSE

\* Comb::try_from(cards)
CombTryFrom ==
    /\ call.op = "try_from"
    /\ ~call.done
    /\ call' = [call EXCEPT !.done = TRUE]
    /\ ret' = try_from(call.cards)
    /\ UNCHANGED binder
    /\ UNCHANGED FieldRest

TryNext == CombTryFrom

TrySpec == TryInit /\ [][TryNext]_vars

\* the largest hand given to MinNpc
MaxNpcHand == 5

\* the cards the hands are dealt from
NpcCards ==
    {Diamond("Three"), Diamond("Four"), Diamond("Five"), Diamond("Six"),
     Diamond("Seven"), Heart("Four"), Heart("Five"), Heart("Six"),
     Spade("Five"), Joker}

\* the combinations on the table when MinNpc is asked to play (NoComb: none)
NpcPrevs ==
    {NoComb,
     Single(Diamond("Three")), Single(Diamond("Six")),
     Multi(<<Diamond("Three"), Heart("Three")>>),
     Multi(<<Diamond("Six"), Heart("Six")>>),
     Multi(<<Diamond("Three"), Heart("Three"), Spade("Three")>>),
     Seq_(<<Diamond("Three"), Diamond("Four"), Diamond("Five")>>),
     Seq_(<<Diamond("Six"), Diamond("Five"), Diamond("Four")>>),
     Seq_(<<Heart("Three"), Heart("Four"), Heart("Five")>>)}

\* a Field with prev on the table in power state rev, and a hand of distinct
\* cards sorted by the order comparator of that state, are chosen; the lock
\* is either off or on the suits of prev (prev was pushed twice)
NpcInit ==
    /\ indexer = Field_new(PLAYERS_COUNT, 0).indexer
    /\ pass_counter = Field_new(PLAYERS_COUNT, 0).pass_counter
    /\ played_comb = NoComb
    /\ hands_count = 0
    /\ flags = {}
    /\ last_play = NoPlay
    /\ passes = 0
    /\ finish_calls = 0
    /\ finish_log = NoFinishes
    /\ hands_left = NoHands
    /\ prev_comb \in NpcPrevs
    /\ is_rev \in BOOLEAN
    /\ binder \in {SuitBinder_new} \cup
                   (IF prev_comb = NoComb THEN {}
                    ELSE {push(push(SuitBinder_new, prev_comb), prev_comb)})
    /\ \E dealt \in {h \in SUBSET NpcCards : Cardinality(h) <= MaxNpcHand} :
          call = [op |-> "play",
                  hands |-> SortBy(dealt, get_order_comparator(is_rev)),
                  done |-> FALSE]
    /\ ret = FALSE

\* players[idx].play(&field) for a MinNpc
NpcPlay ==
    /\ call.op = "play"
    /\ ~call.done
    /\ call' = [call EXCEPT !.done = TRUE]
    /\ ret' = MinNpc_play(call.hands, Self)
    /\ UNCHANGED binder
    /\ UNCHANGED FieldRest

NpcNext == NpcPlay

NpcSpec == NpcInit /\ [][NpcNext]_vars

(***************************************************************************)
(* Properties                                                              *)
(***************************************************************************)

\* the step is a turn of the main loop (a play or a pass), not a new round
IsTurn == count_active_players(indexer) > 0

\* the last turn taken was a play of comb
Played(c) == played_comb = c /\ c # NoComb

\* the card is a Normal card of the rank
HasRank(card, r) == card.kind = "Normal" /\ card.rank = r

\* the card is a Normal card of the suit
HasSuit(card, s) == card.kind = "Normal" /\ card.suit = s

\* the first non-joker card of the cards has the rank
FirstRankIs(cards, r) ==
    \E i \in 1..Len(cards) :
        /\ HasRank(cards[i], r)
        /\ \A j \in 1..(i - 1) : cards[j].kind = "Joker"

\* a Single Eight, or a Group whose first non-joker card is an Eight
IsEightPlay(c) ==
    \/ c.shape = "Single" /\ HasRank(c.cards[1], "Eight")
    \/ c.shape = "Multi" /\ FirstRankIs(c.cards, "Eight")

\* the tracker holds neither an active nor a pending pattern
LockCleared(b) == ~b.suits.some /\ ~b.prev_suits.some

\* C1: Field::is_valid(c) is true exactly when no previous combination is on
\* the table, or SuitBinder::is_valid accepts c and c.is_greater(prev) holds
\* under cmp_rank (power not reversed) or cmp_rank_reversely (reversed); with
\* no previous combination every classified combination is valid.
ThmC1 ==
    \A c \in AllCombs :
        /\ field_is_valid(Self, c) <=>
              \/ prev_comb = NoComb
              \/ /\ binder_is_valid(binder, c)
                 /\ IF is_rev
                    THEN is_greater(c, prev_comb, "cmp_rank_reversely")
                    ELSE is_greater(c, prev_comb, "cmp_rank")
        /\ prev_comb = NoComb => field_is_valid(Self, c)

\* C1 witness: power is reversed, a lock is active and a combination is on
\* the table; one candidate is accepted, one is stronger but refused by the
\* lock, and one passes the lock but is not stronger
WitC1 ==
    /\ count_active_players(indexer) > 0
    /\ prev_comb # NoComb
    /\ is_rev
    /\ is_activate(binder)
    /\ \E c \in AllCombs : field_is_valid(Self, c)
    /\ \E c \in AllCombs :
          /\ ~binder_is_valid(binder, c)
          /\ is_greater(c, prev_comb, "cmp_rank_reversely")
          /\ ~field_is_valid(Self, c)
    /\ \E c \in AllCombs :
          /\ binder_is_valid(binder, c)
          /\ is_greater(c, prev_comb, "cmp_rank")
          /\ ~field_is_valid(Self, c)

\* C2: an eight-play (a Single Eight or a Group whose first non-joker card is
\* an Eight, played with hands_count > 0) returns EIGHT, leaves the lock
\* tracker without active and pending pattern, clears the previous
\* combination and leaves get_idx() on the same player.
ThmC2 ==
    [][(IsTurn /\ IsEightPlay(played_comb') /\ hands_count' > 0)
          => /\ "EIGHT" \in flags'
             /\ LockCleared(binder')
             /\ prev_comb' = NoComb
             /\ get_idx(indexer') = get_idx(indexer)]_vars

\* C2 witness: a Group of Eights with a Joker was played with cards remaining
\* by a player who is still at the cursor
WitC2 ==
    /\ played_comb.shape = "Multi"
    /\ IsEightPlay(played_comb)
    /\ ContainsJoker(played_comb.cards)
    /\ hands_count > 0
    /\ "EIGHT" \in flags
    /\ get_idx(indexer) = last_play.player

\* the highest-index unfilled finish slot of rank holds player in rank2
WrittenBack(rank, rank2, player) ==
    \E j \in 1..Len(rank) :
        /\ rank[j] = NoPlayer
        /\ \A k \in (j + 1)..Len(rank) : rank[k] # NoPlayer
        /\ rank2[j] = player

\* the lowest-index unfilled finish slot of rank holds player in rank2
WrittenFront(rank, rank2, player) ==
    \E j \in 1..Len(rank) :
        /\ rank[j] = NoPlayer
        /\ \A k \in 1..(j - 1) : rank[k] # NoPlayer
        /\ rank2[j] = player

\* C3: put(Some(Single Two), 0) returns LOSE and writes the current player
\* into the last unfilled finish slot when power is not reversed, and returns
\* OUT (not LOSE) when it is reversed; put(Some(Single Three), 0) returns LOSE
\* when power is reversed and OUT when it is not.
ThmC3 ==
    [][(IsTurn /\ played_comb'.shape = "Single" /\ hands_count' = 0)
          => /\ (HasRank(played_comb'.cards[1], "Two") /\ ~is_rev)
                   => /\ "LOSE" \in flags'
                      /\ WrittenBack(indexer.player_rank, indexer'.player_rank,
                                     get_idx(indexer))
             /\ (HasRank(played_comb'.cards[1], "Two") /\ is_rev)
                   => ("OUT" \in flags' /\ "LOSE" \notin flags')
             /\ (HasRank(played_comb'.cards[1], "Three") /\ is_rev)
                   => "LOSE" \in flags'
             /\ (HasRank(played_comb'.cards[1], "Three") /\ ~is_rev)
                   => ("OUT" \in flags' /\ "LOSE" \notin flags')]_vars

\* C3 witness: while power is reversed a player went out with a Single Two
\* after another player had lost
WitC3 ==
    /\ played_comb.shape = "Single"
    /\ HasRank(played_comb.cards[1], "Two")
    /\ hands_count = 0
    /\ is_rev
    /\ "OUT" \in flags
    /\ finish_calls = 2
    /\ indexer.player_rank[PLAYERS_COUNT] # NoPlayer

\* the forbidden finishes of C4 for the power state rev
IsForbiddenFinish(c, rev) ==
    LET special == IF rev THEN "Three" ELSE "Two"
    IN \/ c.shape = "Single" /\ c.cards[1].kind = "Joker"
       \/ c.shape = "Single" /\ HasRank(c.cards[1], "Eight")
       \/ c.shape = "Single" /\ HasRank(c.cards[1], special)
       \/ c.shape = "Multi" /\ FirstRankIs(c.cards, "Eight")
       \/ c.shape = "Multi" /\ FirstRankIs(c.cards, special)

\* the players of a sequence
Range(s) == {s[i] : i \in 1..Len(s)}

\* C4: a play with hands_count == 0 records the current player at the back of
\* the finish order with LOSE iff the combination is a Single Joker, a Single
\* of rank Eight or of the special rank (Two if not reversed, Three if
\* reversed) or a Group whose first non-joker rank is one of those; otherwise
\* it records the player at the front with OUT; the player leaves the rotation.
ThmC4 ==
    [][(IsTurn /\ played_comb' # NoComb /\ hands_count' = 0)
          => /\ IF IsForbiddenFinish(played_comb', is_rev)
                THEN /\ "LOSE" \in flags' /\ "OUT" \notin flags'
                     /\ WrittenBack(indexer.player_rank, indexer'.player_rank,
                                    get_idx(indexer))
                ELSE /\ "OUT" \in flags' /\ "LOSE" \notin flags'
                     /\ WrittenFront(indexer.player_rank, indexer'.player_rank,
                                     get_idx(indexer))
             /\ get_idx(indexer) \notin Range(indexer'.active_players)]_vars

\* C4 witness: a Group of the special rank with a Joker was the last play of a
\* hand and its player lost
WitC4 ==
    /\ played_comb.shape = "Multi"
    /\ ContainsJoker(played_comb.cards)
    /\ FirstRankIs(played_comb.cards, "Three")
    /\ hands_count = 0
    /\ "LOSE" \in flags
    /\ last_play.player \notin Range(indexer.active_players)

\* C5: a Run is never an eight-play and never a forbidden finish: with
\* hands_count > 0 it does not set EIGHT, is stored as previous combination
\* and the cursor advances; with hands_count == 0 it returns OUT, never LOSE.
ThmC5 ==
    [][(IsTurn /\ played_comb'.shape = "Seq")
          => IF hands_count' > 0
             THEN /\ "EIGHT" \notin flags'
                  /\ prev_comb' = played_comb'
                  /\ indexer'.active_players = indexer.active_players
                  /\ indexer'.idx = (indexer.idx + 1) % Len(indexer.active_players)
             ELSE "OUT" \in flags' /\ "LOSE" \notin flags']_vars

\* C5 witness: a Run with an Eight and a Joker was played with cards remaining
\* and lies on the table
WitC5 ==
    /\ played_comb.shape = "Seq"
    /\ \E i \in 1..Len(played_comb.cards) : HasRank(played_comb.cards[i], "Eight")
    /\ ContainsJoker(played_comb.cards)
    /\ hands_count > 0
    /\ prev_comb = played_comb

\* C6: put toggles the power-reversal flag and sets REV iff the played
\* combination is a Group of 4 or more cards, whether or not the play is also
\* an eight-play or a finishing play; passes, Singles, Runs and smaller
\* Groups never change the flag.
ThmC6 ==
    [][IsTurn
          => LET big == played_comb'.shape = "Multi" /\ Len(played_comb'.cards) >= 4
             IN /\ (is_rev' # is_rev) <=> big
                /\ ("REV" \in flags') <=> big]_vars

\* C6 witness: a Group of four Eights was played as an eight-play and power
\* is reversed
WitC6 ==
    /\ played_comb.shape = "Multi"
    /\ Len(played_comb.cards) >= 4
    /\ {"REV", "EIGHT"} \subseteq flags
    /\ is_rev

\* a Single Diamond card that is not an Eight
IsDiamondSingle(c) ==
    /\ c.shape = "Single"
    /\ HasSuit(c.cards[1], "Diamond")
    /\ ~HasRank(c.cards[1], "Eight")

\* the last call of put was a Single Diamond play, not an Eight, that left
\* cards in hand and was made on a clear table with no lock
FirstDiamondPlayed ==
    /\ passes = 0
    /\ IsDiamondSingle(played_comb)
    /\ hands_count > 0
    /\ last_play.clear_before

\* the step is the pass that completes a full pass-around
IsFullPassAround ==
    /\ IsTurn
    /\ played_comb' = NoComb
    /\ passes' = last_play.active - 1

CexC8 == prev_comb = NoComb => LockCleared(binder)

\* C9: after a non-eight play by P with cards remaining while n players are
\* active, the previous combination stays through the first n-2 passes; the
\* (n-1)-th pass clears it and the lock tracker, and get_idx() is P again.
ThmC9 ==
    [][(IsTurn /\ played_comb' = NoComb /\ last_play.player # NoPlayer
             /\ ~last_play.finished)
          => IF passes' < last_play.active - 1
             THEN prev_comb' = prev_comb /\ prev_comb' # NoComb
             ELSE /\ passes' = last_play.active - 1
                  /\ prev_comb' = NoComb
                  /\ LockCleared(binder')
                  /\ get_idx(indexer') = last_play.player]_vars

\* C9 witness: three players passed after a play made with four players
\* active, the table is clear and the cursor is back on the player who played
WitC9 ==
    /\ ~last_play.finished
    /\ last_play.active = PLAYERS_COUNT
    /\ passes = PLAYERS_COUNT - 1
    /\ played_comb = NoComb
    /\ prev_comb = NoComb
    /\ get_idx(indexer) = last_play.player

\* C10: from Indexer::new(4, s), three finish calls in any mix of
\* set_rank_front and set_rank_back, with next() calls in between, leave the
\* active list empty and a finish order holding each player exactly once.
ThmC10 ==
    finish_calls = 3
       => /\ count_active_players(indexer) = 0
          /\ Len(get_player_rank(indexer)) = PLAYERS_COUNT
          /\ \A p \in 0..(PLAYERS_COUNT - 1) :
                Cardinality({i \in 1..PLAYERS_COUNT :
                                get_player_rank(indexer)[i] = p}) = 1

\* C10 witness: the third finish was a back finish after a front and a back
\* finish, and the auto-finished player sits between them
WitC10 ==
    /\ finish_calls = 3
    /\ "LOSE" \in flags
    /\ indexer.player_rank[3] = last_play.player
    /\ indexer.player_rank[2] \notin {NoPlayer, last_play.player}

\* the unfilled finish slots are one block of successive slots
UnfilledBlock(rank) ==
    \A i \in Unfilled(rank), j \in Unfilled(rank) :
        \A k \in i..j : k \in Unfilled(rank)

\* C11: the filled finish slots are a prefix (front writes, lowest unfilled
\* slot first) together with a suffix (back writes, highest unfilled slot
\* first) of the array: no filled slot is overwritten and the unfilled slots
\* stay one block between the two.
ThmC11 ==
    [][IsTurn
          => /\ \A i \in 1..PLAYERS_COUNT :
                   indexer.player_rank[i] # NoPlayer
                      => indexer'.player_rank[i] = indexer.player_rank[i]
             /\ UnfilledBlock(indexer'.player_rank)
             /\ "OUT" \in flags'
                   => WrittenFront(indexer.player_rank, indexer'.player_rank,
                                   get_idx(indexer))
             /\ "LOSE" \in flags'
                   => WrittenBack(indexer.player_rank, indexer'.player_rank,
                                  get_idx(indexer))]_vars

\* C11 witness: one front finish and one back finish have been recorded and
\* the two slots between them are unfilled
WitC11 ==
    /\ count_active_players(indexer) = 2
    /\ indexer.player_rank[1] # NoPlayer
    /\ indexer.player_rank[PLAYERS_COUNT] # NoPlayer
    /\ Unfilled(indexer.player_rank) = {2, 3}

\* C12: whenever the active-player list is non-empty the turn cursor is a
\* valid index into it.
ThmC12 ==
    count_active_players(indexer) > 0
       => (indexer.idx >= 0 /\ indexer.idx < count_active_players(indexer))

\* C12 witness: the last player of the list finished and the cursor wrapped
\* to the first of the three remaining players
WitC12 ==
    /\ last_play.finished
    /\ last_play.player = PLAYERS_COUNT - 1
    /\ last_play.active = PLAYERS_COUNT
    /\ passes = 0
    /\ count_active_players(indexer) = PLAYERS_COUNT - 1
    /\ indexer.idx = 0

ThmC14 ==
    [][IsTurn
          => /\ "BIND" \in flags'
                   <=> /\ played_comb' # NoComb
                       /\ ~(IsEightPlay(played_comb') /\ hands_count' > 0)
                       /\ ~is_activate(binder)
                       /\ is_activate(binder')
             /\ "BIND" \in flags'
                   => /\ ~IsEightPlay(played_comb')
                      /\ ~is_activate(binder)]_vars

\* C14 witness: a joker-free Group activated the lock and BIND was returned
WitC14 ==
    /\ played_comb.shape = "Multi"
    /\ "BIND" \in flags
    /\ is_activate(binder)
    /\ Len(binder.suits.v) = Len(played_comb.cards)

\* the step is a push of a Single Normal card
IsSinglePush ==
    /\ call'.op = "push"
    /\ call'.comb.shape = "Single"
    /\ call'.comb.cards[1].kind = "Normal"

\* the step is a push of a Single Joker or of a Group or Run with a Joker
IsJokerPush ==
    /\ call'.op = "push"
    /\ ContainsJoker(call'.comb.cards)

\* the step is a push of a Group or Run without a Joker
IsPlainPush ==
    /\ call'.op = "push"
    /\ call'.comb.shape \in {"Multi", "Seq"}
    /\ ~ContainsJoker(call'.comb.cards)

\* the suits of joker-free cards, position by position
SuitsOf(cards) == [i \in 1..Len(cards) |-> cards[i].suit]

\* C15 (as claimed): push of a Single Normal card of suit s on an inactive
\* tracker activates the lock iff the pending pattern exists, has length 1
\* and equals s; otherwise the lock stays inactive and pending becomes [s].
CexC15 ==
    [][(IsSinglePush /\ ~is_activate(binder))
          => LET s == call'.comb.cards[1].suit
             IN IF /\ binder.prev_suits.some
                   /\ Len(binder.prev_suits.v) = 1
                   /\ binder.prev_suits.v[1] = s
                THEN is_activate(binder') /\ ret'
                ELSE /\ ~is_activate(binder')
                     /\ ~ret'
                     /\ binder'.prev_suits = SomeSuits(<<s>>)]_vars

\* C16: push of a Single Joker, or of a Group or Run that contains a Joker,
\* leaves the active pattern as it was (an inactive lock stays inactive) and
\* sets the pending pattern to none, whatever it was before.
ThmC16 ==
    [][IsJokerPush
          => /\ binder'.suits = binder.suits
             /\ binder'.prev_suits = NoSuits
             /\ ret' = is_activate(binder)
             /\ ~is_activate(binder) => ~is_activate(binder')]_vars

\* C16 witness: a Group with a Joker was pushed and the tracker holds neither
\* an active nor a pending pattern
WitC16 ==
    /\ call.op = "push"
    /\ call.comb.shape = "Multi"
    /\ ContainsJoker(call.comb.cards)
    /\ Len(call.comb.cards) >= 3
    /\ LockCleared(binder)
    /\ ~ret

\* C17: push of a joker-free Group or Run activates the lock (active :=
\* pending, pending := none) iff a pending pattern exists and equals the
\* ordered suit sequence of the combination; otherwise the active pattern is
\* left as it was and pending becomes that suit sequence.
ThmC17 ==
    [][IsPlainPush
          => LET seq == SuitsOf(call'.comb.cards)
             IN IF binder.prev_suits.some /\ binder.prev_suits.v = seq
                THEN /\ binder'.suits = SomeSuits(seq)
                     /\ binder'.prev_suits = NoSuits
                     /\ ret'
                ELSE /\ binder'.suits = binder.suits
                     /\ binder'.prev_suits = SomeSuits(seq)
                     /\ ret' = is_activate(binder)]_vars

\* C17 witness: a joker-free Run was pushed and its suit sequence is the
\* active lock
WitC17 ==
    /\ call.op = "push"
    /\ call.comb.shape = "Seq"
    /\ ~ContainsJoker(call.comb.cards)
    /\ binder.suits = SomeSuits(SuitsOf(call.comb.cards))
    /\ binder.prev_suits = NoSuits
    /\ ret

\* the acceptance rule of C18 for the active lock pattern L
LockAccepts(L, c) ==
    CASE c.shape = "Single" ->
            /\ Len(L) = 1
            /\ (c.cards[1].kind = "Joker" \/ c.cards[1].suit = L[1])
      [] c.shape = "Multi" ->
            /\ Len(c.cards) = Len(L)
            /\ \A i \in 1..Len(c.cards) :
                  c.cards[i].kind = "Joker" \/ c.cards[i].suit = L[i]
      [] c.shape = "Seq" ->
            /\ Len(c.cards) = Len(L)
            /\ \A i \in 1..Len(c.cards) :
                  c.cards[i].kind = "Joker" \/ c.cards[i].suit = L[1]

\* C18: SuitBinder::is_valid is true for every combination when no lock is
\* active; with an active lock L it accepts a Single iff |L| = 1 and the card
\* is a Joker or has suit L[0], a Group iff it has |L| cards and every
\* non-joker card at position i has suit L[i], a Run iff it has |L| cards and
\* every non-joker card has suit L[0].
ThmC18 ==
    call.op = "is_valid"
       => IF is_activate(binder)
          THEN ret <=> LockAccepts(binder.suits.v, call.comb)
          ELSE ret

\* C18 witness: a lock of two suits is active and a Single Joker was refused
WitC18 ==
    /\ call.op = "is_valid"
    /\ call.comb = Single(Joker)
    /\ is_activate(binder)
    /\ Len(binder.suits.v) = 2
    /\ ~ret

\* is_greater has been applied to the chosen combinations
Compared == call.op = "is_greater" /\ call.done

\* both Single, both Group of equal length or both Run of equal length
SameShapeAndLength(c1, c2) ==
    /\ c1.shape = c2.shape
    /\ Len(c1.cards) = Len(c2.cards)

\* a Field with prev on the table, no lock and the power state rev
FieldWith(prev, rev) ==
    [Field_new(PLAYERS_COUNT, 0) EXCEPT !.prev_comb = prev, !.is_rev = rev]

\* C19: for every comparator is_greater is false whenever the two
\* combinations are not both Single, both Group of equal length or both Run
\* of equal length, so Field::is_valid rejects every candidate whose shape or
\* card count differs from the previous combination's.
ThmC19 ==
    (Compared /\ ~SameShapeAndLength(call.self, call.comb))
       => /\ ~ret
          /\ \A rev \in BOOLEAN :
                ~field_is_valid(FieldWith(call.comb, rev), call.self)

\* C19 witness: a Run was compared with a Group of the same length that it
\* beats card by card, and is not greater
WitC19 ==
    /\ Compared
    /\ call.self.shape = "Seq"
    /\ call.comb.shape = "Multi"
    /\ Len(call.self.cards) = Len(call.comb.cards)
    /\ \A i \in 1..Len(call.self.cards) :
          Compare(call.comparator, call.self.cards[i], call.comb.cards[i]) = "Greater"
    /\ ~ret

\* C20: for two Groups or two Runs of equal length is_greater is true iff at
\* every position one of the two cards is a Joker or the candidate's card
\* compares Greater than the other's under the given comparator.
ThmC20 ==
    (Compared /\ call.self.shape \in {"Multi", "Seq"}
        /\ SameShapeAndLength(call.self, call.comb))
       => (ret <=> \A i \in 1..Len(call.self.cards) :
                      \/ call.self.cards[i].kind = "Joker"
                      \/ call.comb.cards[i].kind = "Joker"
                      \/ Compare(call.comparator, call.self.cards[i],
                                 call.comb.cards[i]) = "Greater")

\* C20 witness: a Group of Normal cards is greater than a Group with a Joker
\* in its last position
WitC20 ==
    /\ Compared
    /\ call.self.shape = "Multi"
    /\ call.comb.shape = "Multi"
    /\ Len(call.self.cards) = Len(call.comb.cards)
    /\ ~ContainsJoker(call.self.cards)
    /\ ContainsJoker(call.comb.cards)
    /\ ret

\* both combinations are Singles
BothSingle == call.self.shape = "Single" /\ call.comb.shape = "Single"

\* C21: under all four comparators Joker compares Greater than every Normal
\* card and Equal to Joker; a Single Joker is greater than every Single
\* Normal card under every comparator, and no Single is greater than a
\* Single Joker.
ThmC21 ==
    (Compared /\ BothSingle)
       => LET c1 == call.self.cards[1]
              c2 == call.comb.cards[1]
          IN /\ (c1.kind = "Joker" /\ c2.kind = "Normal")
                   => /\ \A comparator \in Comparators :
                            Compare(comparator, c1, c2) = "Greater"
                      /\ ret
             /\ (c1.kind = "Joker" /\ c2.kind = "Joker")
                   => \A comparator \in Comparators :
                         Compare(comparator, c1, c2) = "Equal"
             /\ c2.kind = "Joker" => ~ret

\* C21 witness: a Single Joker was compared with a Single Two under the
\* reversed rank comparator and is greater
WitC21 ==
    /\ Compared
    /\ BothSingle
    /\ call.self.cards[1].kind = "Joker"
    /\ HasRank(call.comb.cards[1], "Two")
    /\ call.comparator = "cmp_rank_reversely"
    /\ ret

\* try_from has been applied to the chosen card sequence
Classified == call.op = "try_from" /\ call.done

\* try_from returned Ok with a combination of the given shape
ReturnedShape(shape) == ret.tag = "Ok" /\ ret.comb.shape = shape

\* C22: for every joker-free card sequence try_from returns a Group holding
\* the cards in input order iff the sequence has at least 2 cards that all
\* share one rank; sequences of 0 or 1 cards are always rejected.
ThmC22 ==
    Classified
       => /\ ~ContainsJoker(call.cards)
             => (ret = [tag |-> "Ok", comb |-> Multi(call.cards)]
                   <=> /\ Len(call.cards) >= 2
                       /\ \A i, j \in 1..Len(call.cards) :
                             call.cards[i].rank = call.cards[j].rank)
          /\ ReturnedShape("Multi") => ret.comb.cards = call.cards
          /\ Len(call.cards) <= 1 => ret.tag = "Err"

\* C22 witness: three joker-free cards of one rank were classified as a
\* Group in the order given
WitC22 ==
    /\ Classified
    /\ Len(call.cards) = 3
    /\ ~ContainsJoker(call.cards)
    /\ call.cards[1] # call.cards[2]
    /\ ret = [tag |-> "Ok", comb |-> Multi(call.cards)]

\* the rank positions of a joker-free card sequence, in input order
Positions(cards) == [i \in 1..Len(cards) |-> RankToI32(cards[i].rank)]

\* all cards of a joker-free sequence have one suit
OneSuit(cards) == \A i, j \in 1..Len(cards) : cards[i].suit = cards[j].suit

\* sorted by rank, successive positions differ by exactly 1: the positions
\* are pairwise distinct and each but the lowest has its predecessor
ConsecutiveWhenSorted(cards) ==
    LET N == {RankToI32(cards[i].rank) : i \in 1..Len(cards)}
    IN /\ Cardinality(N) = Len(cards)
       /\ \A v \in N : v = Min(N) \/ (v - 1) \in N

\* in the order given, every successive difference is d
StepsBy(nums, d) == \A i \in 1..(Len(nums) - 1) : nums[i + 1] - nums[i] = d

\* C23 (as claimed): for every joker-free card sequence of length >= 3
\* try_from returns a Run iff all cards share one suit and, after sorting by
\* rank, successive rank positions differ by exactly 1.
CexC23 ==
    (Classified /\ Len(call.cards) >= 3 /\ ~ContainsJoker(call.cards))
       => (ReturnedShape("Seq")
             <=> OneSuit(call.cards) /\ ConsecutiveWhenSorted(call.cards))

\* C23 (amended): for every joker-free card sequence of length >= 3 try_from
\* returns a Run, holding the cards in the order given, iff all cards share
\* one suit and, in the order given, successive rank positions all differ by
\* +1 or all differ by -1.
ThmC23 ==
    (Classified /\ Len(call.cards) >= 3 /\ ~ContainsJoker(call.cards))
       => /\ ReturnedShape("Seq")
                <=> /\ OneSuit(call.cards)
                    /\ \/ StepsBy(Positions(call.cards), 1)
                       \/ StepsBy(Positions(call.cards), -1)
          /\ ReturnedShape("Seq") => ret.comb.cards = call.cards

\* C23 witness: three cards of one suit that are consecutive once sorted but
\* were given out of order have been rejected
WitC23 ==
    /\ Classified
    /\ Len(call.cards) = 3
    /\ ~ContainsJoker(call.cards)
    /\ OneSuit(call.cards)
    /\ ConsecutiveWhenSorted(call.cards)
    /\ ~StepsBy(Positions(call.cards), 1)
    /\ ~StepsBy(Positions(call.cards), -1)
    /\ ret.tag = "Err"

\* the number of Jokers in a card sequence
JokerCount(cards) == Cardinality({i \in 1..Len(cards) : cards[i].kind = "Joker"})

\* the non-joker cards of a sequence have one suit
NonJokersOneSuit(cards) ==
    \A i, j \in 1..Len(cards) :
       (cards[i].kind = "Normal" /\ cards[j].kind = "Normal")
          => cards[i].suit = cards[j].suit

\* rank positions in input order of a sequence of 3 or more cards with at
\* most one Joker, the Joker replaced by the position inferred from its
\* neighbours
Substituted(cards) ==
    LET pos(i) == RankToI32(cards[i].rank)
        n == Len(cards)
    IN [i \in 1..n |->
          IF cards[i].kind = "Normal" THEN pos(i)
          ELSE IF i = 1 THEN 2 * pos(2) - pos(3)
          ELSE IF i = n THEN 2 * pos(n - 1) - pos(n - 2)
          ELSE (pos(i - 1) + pos(i + 1)) \div 2]

\* the Runs with a Joker named by C24, and their descending mirrors
JokerRunExamples ==
    {<<Joker, Diamond("Four"), Diamond("Five"), Diamond("Six")>>,
     <<Diamond("Three"), Joker, Diamond("Five"), Diamond("Six")>>,
     <<Diamond("Three"), Diamond("Four"), Diamond("Five"), Joker>>,
     <<Diamond("Six"), Diamond("Five"), Diamond("Four"), Joker>>,
     <<Diamond("Six"), Diamond("Five"), Joker, Diamond("Three")>>,
     <<Joker, Diamond("Five"), Diamond("Four"), Diamond("Three")>>}

\* C24: for every sequence of 3 or more cards with at most one Joker whose
\* non-joker cards share one suit, try_from returns a Run iff the rank
\* positions in input order, with the Joker replaced by 2*next - next2 at the
\* first position, 2*prev - prev2 at the last and (prev + next) / 2 in the
\* interior, all step by +1 or all step by -1; the named examples are Runs.
ThmC24 ==
    Classified
       => /\ (Len(call.cards) >= 3 /\ JokerCount(call.cards) <= 1
                 /\ NonJokersOneSuit(call.cards))
             => (ReturnedShape("Seq")
                   <=> \/ StepsBy(Substituted(call.cards), 1)
                       \/ StepsBy(Substituted(call.cards), -1))
          /\ call.cards \in JokerRunExamples => ReturnedShape("Seq")

\* C24 witness: a descending sequence with the Joker in first position has
\* been classified as a Run
WitC24 ==
    /\ Classified
    /\ call.cards = <<Joker, Diamond("Five"), Diamond("Four"), Diamond("Three")>>
    /\ ret = [tag |-> "Ok", comb |-> Seq_(call.cards)]

\* C25 (as claimed): for every input card sequence, including those with
\* two or more Jokers in any positions, try_from ends with Ok(combination)
\* or Err and never panics.
CexC25 == Classified => ret.tag \in {"Ok", "Err"}

\* C26 (as claimed): try_from rejects every input of 2 or more cards that
\* are all Jokers, so every accepted Group or Run holds at least one
\* non-joker card.
CexC26 ==
    Classified
       => /\ (Len(call.cards) >= 2 /\ JokerCount(call.cards) = Len(call.cards))
                => ret.tag = "Err"
          /\ ret.tag = "Ok"
                => \E i \in 1..Len(ret.comb.cards) : ret.comb.cards[i].kind = "Normal"

\* MinNpc::play has been applied to the chosen hand
NpcPlayed == call.op = "play" /\ call.done

\* the cards of a hand as a bag (the hands hold distinct cards)
CardsOf(cards) == {cards[i] : i \in 1..Len(cards)}

\* C27: with a previous combination on the table MinNpc::play returns None
\* and leaves the hand unchanged, or returns a combination of the previous
\* one's shape and length that the validator accepts and whose cards are
\* exactly the cards removed from the hand, the rest keeping their order.
ThmC27 ==
    (NpcPlayed /\ prev_comb # NoComb)
       => IF ret.comb = NoComb
          THEN ret.hands = call.hands
          ELSE /\ SameShapeAndLength(ret.comb, prev_comb)
               /\ field_is_valid(Self, ret.comb)
               /\ Len(ret.hands) = Len(call.hands) - Len(ret.comb.cards)
               /\ CardsOf(ret.comb.cards) \subseteq CardsOf(call.hands)
               /\ Cardinality(CardsOf(ret.comb.cards)) = Len(ret.comb.cards)
               /\ CardsOf(ret.hands) = CardsOf(call.hands) \ CardsOf(ret.comb.cards)
               /\ ret.hands = SelectSeq(call.hands,
                                        LAMBDA c : c \notin CardsOf(ret.comb.cards))

\* C27 witness: on a Run of three under a suit lock MinNpc answered with a
\* Run of three of that suit that does not start at the suit's first card
\* in a hand of five
WitC27 ==
    /\ NpcPlayed
    /\ prev_comb.shape = "Seq"
    /\ is_activate(binder)
    /\ Len(call.hands) = 5
    /\ ret.comb.shape = "Seq"
    /\ \E i \in 1..Len(ret.hands) :
          /\ ret.hands[i].kind = "Normal"
          /\ ret.hands[i].suit = ret.comb.cards[1].suit
          /\ Compare(get_order_comparator(is_rev), ret.hands[i], ret.comb.cards[1]) = "Less"
    /\ Len(ret.hands) = 2

\* the step is a finishing play of a Group of 4 or more cards
IsBigGroupFinish ==
    /\ IsTurn
    /\ played_comb'.shape = "Multi"
    /\ Len(played_comb'.cards) >= 4
    /\ hands_count' = 0

\* C28: when the finishing combination is a Group of 4 or more cards the
\* forbidden-finish test uses the reversal flag as it was before this play
\* toggles it: four Twos while power is not reversed return LOSE and REV,
\* four Threes while power is not reversed return OUT and REV.
ThmC28 ==
    [][IsBigGroupFinish
          => LET special == IF is_rev THEN "Three" ELSE "Two"
                 forbidden == \/ FirstRankIs(played_comb'.cards, "Eight")
                              \/ FirstRankIs(played_comb'.cards, special)
             IN /\ "REV" \in flags'
                /\ is_rev' = ~is_rev
                /\ "LOSE" \in flags' <=> forbidden
                /\ "OUT" \in flags' <=> ~forbidden
                /\ (~is_rev /\ FirstRankIs(played_comb'.cards, "Two"))
                      => {"LOSE", "REV"} \subseteq flags'
                /\ (~is_rev /\ FirstRankIs(played_comb'.cards, "Three"))
                      => {"OUT", "REV"} \subseteq flags']_vars

\* C28 witness: a Group of four with Twos ended a hand while power was not
\* reversed; the play returned LOSE and REV and power is now reversed
WitC28 ==
    /\ played_comb.shape = "Multi"
    /\ Len(played_comb.cards) >= 4
    /\ FirstRankIs(played_comb.cards, "Two")
    /\ hands_count = 0
    /\ {"LOSE", "REV"} \subseteq flags
    /\ "OUT" \notin flags
    /\ is_rev
    /\ prev_comb = played_comb

\* the player after p in rotation among the players of a list that is in
\* seating order: the next higher seat, or the lowest one when p sat last
Follower(p, players) ==
    LET later == {q \in Range(players) : q > p}
    IN IF later # {} THEN Min(later) ELSE Min(Range(players))

\* the step is a finishing play that is not an eight-play
IsPlainFinish ==
    /\ IsTurn
    /\ played_comb' # NoComb
    /\ hands_count' = 0
    /\ ~IsEightPlay(played_comb')

\* C29: when P plays the last cards with a non-eight combination while
\* n >= 3 players are active, the countdown is n-1, the number of players
\* left once P is removed; the table is cleared only by the (n-1)-th
\* consecutive pass, and get_idx() is then the player who followed P.
ThmC29 ==
    [][/\ (IsPlainFinish /\ count_active_players(indexer) >= 3)
          => /\ pass_counter' = count_active_players(indexer) - 1
             /\ pass_counter' = count_active_players(indexer')
             /\ prev_comb' = played_comb'
       /\ (IsTurn /\ played_comb' = NoComb /\ last_play.finished
             /\ last_play.active >= 3)
          => IF passes' < last_play.active - 1
             THEN prev_comb' = prev_comb /\ prev_comb' # NoComb
             ELSE /\ passes' = last_play.active - 1
                  /\ prev_comb' = NoComb
                  /\ get_idx(indexer')
                        = Follower(last_play.player, indexer'.active_players)]_vars

\* C29 witness: the third of four players finished with a plain play, the
\* three others passed in turn, the table is clear and the fourth player,
\* who followed the finisher, is to move
WitC29 ==
    /\ last_play.finished
    /\ last_play.active = PLAYERS_COUNT
    /\ last_play.player = 2
    /\ passes = PLAYERS_COUNT - 1
    /\ played_comb = NoComb
    /\ prev_comb = NoComb
    /\ get_idx(indexer) = 3

\* the step is a finishing play after which at least 2 players remain
IsFinishLeavingTwo ==
    /\ IsTurn
    /\ played_comb' # NoComb
    /\ hands_count' = 0
    /\ count_active_players(indexer') >= 2

\* C30: after set_rank_front or set_rank_back removes the current player
\* while at least 2 players remain, get_idx() is the active player that
\* followed the finisher in rotation order (the first remaining player if
\* the finisher was last in the list); the remaining players keep their
\* order, none is dropped and none appears twice.
ThmC30 ==
    [][IsFinishLeavingTwo
          => LET n == Len(indexer.active_players)
                 finisher == get_idx(indexer)
                 successor == indexer.active_players[((indexer.idx + 1) % n) + 1]
             IN /\ get_idx(indexer') = successor
                /\ successor # finisher
                /\ indexer.idx = n - 1
                      => get_idx(indexer') = indexer'.active_players[1]
                /\ indexer'.active_players
                      = SelectSeq(indexer.active_players, LAMBDA q : q # finisher)
                /\ Cardinality(Range(indexer'.active_players))
                      = Len(indexer'.active_players)]_vars

\* C30 witness: the last of four players in the list finished and the first
\* remaining player is to move
WitC30 ==
    /\ last_play.finished
    /\ last_play.active = PLAYERS_COUNT
    /\ last_play.player = PLAYERS_COUNT - 1
    /\ passes = 0
    /\ played_comb # NoComb
    /\ hands_count = 0
    /\ indexer.active_players = <<0, 1, 2>>
    /\ get_idx(indexer) = 0

\* the step is a play of a Group of 4 or more cards that is not an eight-play
IsPlainBigGroup ==
    /\ IsTurn
    /\ played_comb'.shape = "Multi"
    /\ Len(played_comb'.cards) >= 4
    /\ ~IsEightPlay(played_comb')

\* c is a Group as long as p whose cards are of strictly lower rank than
\* p's, position by position, a Joker on either side matching anything
LowerGroup(c, p) ==
    /\ c.shape = "Multi"
    /\ Len(c.cards) = Len(p.cards)
    /\ \A i \in 1..Len(c.cards) :
          \/ c.cards[i].kind = "Joker"
          \/ p.cards[i].kind = "Joker"
          \/ RankToI32(c.cards[i].rank) < RankToI32(p.cards[i].rank)

\* c is a Group as long as p with a card of higher rank than p's card at
\* the same position
HigherGroup(c, p) ==
    /\ c.shape = "Multi"
    /\ Len(c.cards) = Len(p.cards)
    /\ \E i \in 1..Len(c.cards) :
          /\ c.cards[i].kind = "Normal"
          /\ p.cards[i].kind = "Normal"
          /\ RankToI32(c.cards[i].rank) > RankToI32(p.cards[i].rank)

\* C31: after a non-eight Group of 4 or more cards is played while power is
\* not reversed, it is stored as previous combination and is_valid judges the
\* next candidate under reversed power: a candidate is accepted only if it is
\* a Group of the same length and strictly lower rank (Jokers wild), and
\* every Group of the same length and higher rank is rejected.
ThmC31 ==
    [][(IsPlainBigGroup /\ ~is_rev)
          => /\ prev_comb' = played_comb'
             /\ is_rev'
             /\ \A c \in TestCombs :
                   /\ field_is_valid(Self', c) => LowerGroup(c, played_comb')
                   /\ HigherGroup(c, played_comb') => ~field_is_valid(Self', c)]_vars

\* C31 witness: a Group of four with Twos was played from normal power and a
\* Group of four with Threes is now a valid answer, one with Twos is not
WitC31 ==
    /\ played_comb.shape = "Multi"
    /\ Len(played_comb.cards) >= 4
    /\ FirstRankIs(played_comb.cards, "Two")
    /\ prev_comb = played_comb
    /\ is_rev
    /\ hands_count > 0
    /\ \E c \in ValidCombs : FirstRankIs(c.cards, "Three") /\ Len(c.cards) = 4
    /\ \A c \in ValidCombs : ~FirstRankIs(c.cards, "Two")

\* a sequence in reverse order
Reverse(s) == [i \in 1..Len(s) |-> s[Len(s) + 1 - i]]

\* the players who have finished by playing their last cards
Finishers == Range(finish_log.out) \cup Range(finish_log.lose)

\* the round is over: nobody is active any more
RoundOver == count_active_players(indexer) = 0

ThmC33 ==
    /\ played_comb = NoComb => flags = {}
    /\ played_comb # NoComb
          => /\ hands_count = 0
                   => Cardinality(flags \cap {"OUT", "LOSE"}) = 1
             /\ hands_count > 0 => flags \cap {"OUT", "LOSE"} = {}
             /\ "EIGHT" \in flags <=> (IsEightPlay(played_comb) /\ hands_count > 0)
    /\ "EIGHT" \in flags => flags \cap {"OUT", "LOSE", "BIND"} = {}
    /\ ~({"OUT", "LOSE"} \subseteq flags)

\* C33 witness: an Eight was a player's last card; the play returned LOSE
\* and not EIGHT
WitC33 ==
    /\ IsEightPlay(played_comb)
    /\ played_comb.shape = "Single"
    /\ hands_count = 0
    /\ flags = {"LOSE"}

\* the step is a pass that leaves the countdown above zero
IsNonFinalPass ==
    /\ IsTurn
    /\ played_comb' = NoComb
    /\ pass_counter' # 0

\* the step is a play of a joker-free combination that is not an eight-play,
\* made after one or more passes on a joker-free combination of the same
\* suits that is still on the table, with no lock active
IsSameSuitPlayAfterPasses ==
    /\ IsTurn
    /\ played_comb' # NoComb
    /\ passes > 0
    /\ prev_comb # NoComb
    /\ ~is_activate(binder)
    /\ ~ContainsJoker(prev_comb.cards)
    /\ ~ContainsJoker(played_comb'.cards)
    /\ ~IsEightPlay(played_comb')
    /\ SuitsOf(played_comb'.cards) = SuitsOf(prev_comb.cards)

\* C34: a pass that does not bring the countdown to zero lowers the
\* countdown by one and moves the cursor to the next active player; the
\* previous combination, the active and the pending lock pattern, the
\* reversal flag, the active list and the finish order are unchanged, so two
\* same-suit plays separated only by passes still activate the lock.
ThmC34 ==
    [][/\ IsNonFinalPass
          => /\ pass_counter' = pass_counter - 1
             /\ indexer'.idx = (indexer.idx + 1) % Len(indexer.active_players)
             /\ prev_comb' = prev_comb
             /\ binder'.suits = binder.suits
             /\ binder'.prev_suits = binder.prev_suits
             /\ is_rev' = is_rev
             /\ indexer'.active_players = indexer.active_players
             /\ indexer'.player_rank = indexer.player_rank
       /\ IsSameSuitPlayAfterPasses
          => /\ is_activate(binder')
             /\ "BIND" \in flags']_vars

\* C34 witness: two players have passed on a Single Diamond; it is still on
\* the table with its suit as pending pattern, the countdown is 1 and a
\* Single Diamond that would activate the lock can be played
WitC34 ==
    /\ passes = 2
    /\ played_comb = NoComb
    /\ IsDiamondSingle(prev_comb)
    /\ last_play.active = PLAYERS_COUNT
    /\ pass_counter = 1
    /\ ~is_activate(binder)
    /\ binder.prev_suits = SomeSuits(<<"Diamond">>)
    /\ \E c \in ValidCombs : IsDiamondSingle(c)

\* C35: in every reachable Field state an active lock and a pending pattern
\* never coexist, and once the lock is active its pattern is not changed by
\* any play or pass until the tracker is cleared by an eight-play with cards
\* remaining or by a full pass-around.
ThmC35 ==
    [][/\ is_activate(binder') => ~binder'.prev_suits.some
       /\ (IsTurn /\ is_activate(binder))
          => IF \/ (played_comb' # NoComb /\ IsEightPlay(played_comb')
                       /\ hands_count' > 0)
                \/ (played_comb' = NoComb /\ pass_counter' = 0)
             THEN LockCleared(binder')
             ELSE binder' = binder]_vars

\* C35 witness: a play that is not an eight-play was made under an active
\* lock; the lock is still active, it was not activated by this play, and
\* nothing is pending
WitC35 ==
    /\ played_comb # NoComb
    /\ ~IsEightPlay(played_comb)
    /\ hands_count > 0
    /\ is_activate(binder)
    /\ "BIND" \notin flags
    /\ ~binder.prev_suits.some
    /\ prev_comb = played_comb

\* C36 (as claimed): whenever a play returns BIND the now-active lock pattern
\* equals the ordered suit sequence of the combination just played (for a
\* Single, the one-element pattern of its suit), and the lock accepts the
\* combination just played again.
CexC36 ==
    (played_comb # NoComb /\ "BIND" \in flags)
       => /\ is_activate(binder)
          /\ ~ContainsJoker(played_comb.cards)
          /\ binder.suits.v = SuitsOf(played_comb.cards)
          /\ binder_is_valid(binder, played_comb)

\* how many positions of a sequence hold p
Occurrences(s, p) == Cardinality({i \in 1..Len(s) : s[i] = p})

\* C37: in every state reachable from Field::new(4, s) each of the 4 players
\* is in exactly one place, once in the active list or in one finish slot;
\* the active list is in ascending order of the original indices, and
\* get_idx() never returns a player who has finished.
ThmC37 ==
    /\ \A p \in 0..(PLAYERS_COUNT - 1) :
          Occurrences(indexer.active_players, p)
             + Occurrences(indexer.player_rank, p) = 1
    /\ \A i \in 1..Len(indexer.active_players) :
          indexer.active_players[i] \in 0..(PLAYERS_COUNT - 1)
    /\ \A i \in 1..Len(indexer.player_rank) :
          indexer.player_rank[i] \in (0..(PLAYERS_COUNT - 1)) \cup {NoPlayer}
    /\ \A i, j \in 1..Len(indexer.active_players) :
          i < j => indexer.active_players[i] < indexer.active_players[j]
    /\ count_active_players(indexer) > 0
          => /\ indexer.idx \in 0..(Len(indexer.active_players) - 1)
             /\ get_idx(indexer) \notin Range(indexer.player_rank)

\* C37 witness: the two middle players have finished, one at the front and
\* one at the back; the first and the last player are active and the last
\* one is to move
WitC37 ==
    /\ indexer.active_players = <<0, 3>>
    /\ indexer.player_rank[1] \in {1, 2}
    /\ indexer.player_rank[PLAYERS_COUNT] \in {1, 2}
    /\ get_idx(indexer) = 3
    /\ played_comb = NoComb

\* C38: in every reachable state where a previous combination is on the
\* table and at least 2 players are active the pass countdown is at least 1,
\* so a pass, made only when a previous combination is on the table, never
\* decrements a countdown of 0.
ThmC38 ==
    [][/\ (prev_comb' # NoComb /\ count_active_players(indexer') >= 2)
          => pass_counter' >= 1
       /\ (IsTurn /\ played_comb' = NoComb)
          => /\ pass_counter >= 1
             /\ pass_counter' = pass_counter - 1
             /\ pass_counter' >= 0]_vars

\* C38 witness: with two players left one has played, the countdown is 1 and
\* the combination is on the table
WitC38 ==
    /\ count_active_players(indexer) = 2
    /\ prev_comb # NoComb
    /\ played_comb = prev_comb
    /\ hands_count > 0
    /\ pass_counter = 1
    /\ last_play.active = 2

\* the player to move can pass or has a valid combination that fits the hand
CanMove == prev_comb # NoComb \/ RoundCombs # {}

\* the round is over with all players ranked
AllRanked ==
    /\ RoundOver
    /\ Range(get_player_rank(indexer)) = 0..(PLAYERS_COUNT - 1)

\* C39: under the player contract (passes only on a combination, every play
\* takes its cards out of a finite hand, hands_count is the true remaining
\* size) every execution from Field::new(4, s) eventually reaches
\* count_active_players() == 0 with all 4 players ranked, and in no
\* reachable state with active players is nobody able to move.
ThmC39 ==
    /\ [](count_active_players(indexer) > 0
            => /\ hands_left[get_idx(indexer)] > 0
               /\ CanMove)
    /\ <>AllRanked

\* C39 witness: the round is over with all four players ranked, three of
\* them with empty hands and the auto-finished player still holding cards
WitC39 ==
    /\ AllRanked
    /\ hands_left # NoHands
    /\ \E p \in 0..(PLAYERS_COUNT - 1) :
          /\ hands_left[p] = MaxDeal
          /\ \A q \in (0..(PLAYERS_COUNT - 1)) \ {p} : hands_left[q] = 0
    /\ played_comb.shape = "Multi"
    /\ hands_count = 0

\* C40 (as claimed): for every card sequence with exactly one Joker that
\* try_from accepts as a Run the rank position inferred for the Joker lies in
\* 0..12 (Three..Two); sequences whose inferred position would be -1 or 13
\* are rejected.
CexC40 ==
    (Classified /\ JokerCount(call.cards) = 1 /\ ReturnedShape("Seq"))
       => \A i \in 1..Len(call.cards) :
             call.cards[i].kind = "Joker"
                => Substituted(call.cards)[i] \in 0..12

====
